---- MODULE Spec2Model ----
(***************************************************************************)
(* LufyKMS core: the vector search provider (query cache + document       *)
(* snapshot cache, both with lazy TTL expiry), the search pipeline         *)
(* (validate, embed, load corpus, score, filter, sort, limit, strip) and   *)
(* the KnowledgeManagementSystem facade whose mutations invalidate the     *)
(* caches; the embedding engine (generateEmbedding with its cache, the     *)
(* chunk loop, retryWrapper and the 30 s race around the backend call) and *)
(* TextSplitter.splitIntoChunks.                                           *)
(*                                                                         *)
(* Conventions.                                                            *)
(*  - A similarity is an integer number of hundredths (0.1 is 10).         *)
(*  - A JS Map is a function whose DOMAIN is the set of keys present.      *)
(*  - An options object is a record holding only the fields that are       *)
(*    present; a field that is absent is `undefined` in the source.        *)
(*  - A string whose characters do not matter is a record                  *)
(*    [body, bodyLen, upper, pad]: `body` names the trimmed lower-case     *)
(*    text, bodyLen its length, upper whether the raw text has upper-case  *)
(*    letters, pad the number of surrounding white-space characters.       *)
(*  - The clock counts units of 10 minutes.                                *)
(*  - A text whose characters matter (splitter, embedding engine) is a     *)
(*    sequence of one-character strings.                                   *)
(*  - A vector of the embedding engine is the integer vector num divided   *)
(*    by den, so that the mean of chunk vectors is exact.                  *)
(***************************************************************************)
EXTENDS Integers, Sequences, FiniteSets, TLC

(***************************************************************************)
(* Bounds of the model.                                                    *)
(***************************************************************************)
MaxTime == 2
MaxCalls == 4
MaxDocs == 1
MaxTextLen == 7
MaxChunkChars == 6
MaxFacadeCalls == 3
MaxDim == 2
MaxEmbeddings == 3
MaxLongText == 12
MaxLiveText == 4
MaxPluginCalls == 4

(***************************************************************************)
(* Program constants.                                                      *)
(***************************************************************************)
cacheTTL == 3
DefaultLimit == 5
MaxQueryLength == 10000
MinLimit == 1
MaxLimit == 100
DefaultMinSimilarityThreshold == 10
ServerTimestamp == -1

(***************************************************************************)
(* Strings.                                                                *)
(***************************************************************************)
Str(body, bodyLen, upper, pad) ==
    [body |-> body, bodyLen |-> bodyLen, upper |-> upper, pad |-> pad]

StrLength(s) == s.bodyLen + s.pad

\* s.trim()
Trim(s) == [s EXCEPT !.pad = 0]

\* s.toLowerCase()
ToLowerCase(s) == [s EXCEPT !.upper = FALSE]

\* !s || s.trim().length === 0
\* A test that takes a string of blanks for content.
IsEmptyString(s) == StrLength(s) = 0

IsBlank(s) == StrLength(s) = 0 \/ StrLength(Trim(s)) = 0

(***************************************************************************)
(* Vectors and SimilarityCalculator.cosineSimilarity.  A result is         *)
(* [kind |-> "num", v |-> hundredths], [kind |-> "nan"] (0/0) or           *)
(* [kind |-> "throw"] (length mismatch).                                   *)
(***************************************************************************)
RECURSIVE Dot(_, _)
Dot(a, b) == IF a = <<>> THEN 0 ELSE Head(a) * Head(b) + Dot(Tail(a), Tail(b))

\* Math.sqrt, rounded down: exact on the sums of squares of the embeddings of
\* the test backend (0, 1, 25), and 0 only for 0.
Sqrt(n) == CHOOSE r \in 0..n : r * r <= n /\ (r + 1) * (r + 1) > n

\* A cosine similarity that tests the norms and answers 0 when one is zero.
cosineSimilarityZeroGuarded(vecA, vecB) ==
    IF Len(vecA) # Len(vecB) THEN [kind |-> "throw"]
    ELSE LET dotProduct == Dot(vecA, vecB)
             den == Sqrt(Dot(vecA, vecA)) * Sqrt(Dot(vecB, vecB))
         IN  IF den = 0 THEN [kind |-> "num", v |-> 0]
             ELSE [kind |-> "num", v |-> (dotProduct * 100) \div den]

cosineSimilarity(vecA, vecB) ==
    IF Len(vecA) # Len(vecB) THEN [kind |-> "throw"]
    ELSE LET dotProduct == Dot(vecA, vecB)
             den == Sqrt(Dot(vecA, vecA)) * Sqrt(Dot(vecB, vecB))
         IN  IF den = 0 THEN [kind |-> "nan"]
             ELSE [kind |-> "num", v |-> (dotProduct * 100) \div den]

Abs(n) == IF n < 0 THEN -n ELSE n

\* The sum of the squares of the differences, component by component.
RECURSIVE SumSquaredDiff(_, _)
SumSquaredDiff(a, b) ==
    IF a = <<>> THEN 0
    ELSE (Head(a) - Head(b)) * (Head(a) - Head(b)) + SumSquaredDiff(Tail(a), Tail(b))

\* The sum of the absolute differences, component by component.
RECURSIVE SumAbsDiff(_, _)
SumAbsDiff(a, b) ==
    IF a = <<>> THEN 0 ELSE Abs(Head(a) - Head(b)) + SumAbsDiff(Tail(a), Tail(b))

\* euclideanDistance without its check of the lengths: NaN once a component
\* is missing on one side.
euclideanDistanceUnchecked(vecA, vecB) ==
    IF Len(vecA) # Len(vecB) THEN [kind |-> "nan"]
    ELSE [kind |-> "num", v |-> Sqrt(SumSquaredDiff(vecA, vecB))]

\* euclideanDistance, rounded down to a whole number.
euclideanDistance(vecA, vecB) ==
    IF Len(vecA) # Len(vecB) THEN [kind |-> "throw"]
    ELSE [kind |-> "num", v |-> Sqrt(SumSquaredDiff(vecA, vecB))]

\* manhattanDistance.
manhattanDistance(vecA, vecB) ==
    IF Len(vecA) # Len(vecB) THEN [kind |-> "throw"]
    ELSE [kind |-> "num", v |-> SumAbsDiff(vecA, vecB)]

(***************************************************************************)
(* The embedding backend seen through EmbeddingProvider.generateEmbedding: *)
(* a deterministic map from text to vector.  Case and padding of the text  *)
(* do not change the vector of the test backend modelled here.             *)
(***************************************************************************)
generateEmbedding(text) ==
    CASE text.body = "cat"  -> <<1, 0>>
      [] text.body = "lion" -> <<4, 3>>
      [] text.body = "dog"  -> <<3, 4>>
      [] text.body = "ant"  -> <<-3, 4>>
      [] text.body = "nil"  -> <<0, 0>>
      [] OTHER              -> <<0, 1>>

(***************************************************************************)
(* BaseSearchProvider: validation.                                         *)
(***************************************************************************)
Has(options, field) == field \in DOMAIN options

\* validateQuery measuring the trimmed query: surrounding blanks are not counted
validateQueryTrimmedLength(query) ==
    \/ IsBlank(query)
    \/ StrLength(Trim(query)) > MaxQueryLength

\* validateQuery throws
validateQueryThrows(query) ==
    \/ IsBlank(query)
    \/ StrLength(query) > MaxQueryLength

\* validateOptions throws
validateOptionsThrows(options) ==
    \/ /\ Has(options, "limit")
       /\ (options.limit < MinLimit \/ options.limit > MaxLimit)
    \/ /\ Has(options, "minSimilarity")
       /\ (options.minSimilarity < 0 \/ options.minSimilarity > 100)

(***************************************************************************)
(* BaseSearchProvider: scoring, sorting, options.                          *)
(***************************************************************************)
RECURSIVE calculateSimilarities(_, _, _)
calculateSimilarities(queryEmbedding, documents, minSimilarityThreshold) ==
    IF documents = <<>> THEN <<>>
    ELSE LET doc == Head(documents)
             rest == calculateSimilarities(queryEmbedding, Tail(documents),
                                           minSimilarityThreshold)
         IN  IF ~doc.hasEmbedding THEN rest
             ELSE LET similarity == cosineSimilarity(queryEmbedding, doc.embedding)
                  IN  IF similarity.kind = "num" /\ similarity.v >= minSimilarityThreshold
                      THEN <<[id |-> doc.id, content |-> doc.content,
                              metadata |-> doc.metadata,
                              similarity |-> similarity.v]>> \o rest
                      ELSE rest

\* The scoring loop without its try/catch.
scoringErrorUncaught(similarity) == similarity.kind = "throw"

\* try { ... } catch (error) { console.warn(...) } around the scoring of one
\* document: no error of cosineSimilarity leaves the loop.
scoringErrorEscapes(similarity) == FALSE

\* calculateSimilarities ends by throwing.
calculateSimilaritiesThrows(queryEmbedding, documents) ==
    \E i \in 1..Len(documents) :
        /\ documents[i].hasEmbedding
        /\ scoringErrorEscapes(cosineSimilarity(queryEmbedding, documents[i].embedding))

\* Insert r into a list already sorted by similarity descending, after every
\* element that does not sort after it: Array.prototype.sort is stable.
RECURSIVE InsertSorted(_, _)
InsertSorted(r, sorted) ==
    IF sorted = <<>> THEN <<r>>
    ELSE IF Head(sorted).similarity >= r.similarity
         THEN <<Head(sorted)>> \o InsertSorted(r, Tail(sorted))
         ELSE <<r>> \o sorted

RECURSIVE sortResultsBySimilarity(_)
sortResultsBySimilarity(results) ==
    IF results = <<>> THEN <<>>
    ELSE LET n == Len(results)
         IN  InsertSorted(results[n], sortResultsBySimilarity(SubSeq(results, 1, n - 1)))

Slice(s, n) == SubSeq(s, 1, IF n < Len(s) THEN n ELSE Len(s))

\* {} : a metadata object is a function from the names of its fields
EmptyMetadata == [f \in {} |-> 0]

\* { ...a, ...b }
Spread(a, b) ==
    [f \in DOMAIN a \cup DOMAIN b |-> IF f \in DOMAIN b THEN b[f] ELSE a[f]]

applySearchOptions(results, options) ==
    LET filtered == IF Has(options, "minSimilarity")
                    THEN SelectSeq(results,
                                   LAMBDA r : r.similarity >= options.minSimilarity)
                    ELSE results
        sorted   == sortResultsBySimilarity(filtered)
        limited  == IF Has(options, "limit") THEN Slice(sorted, options.limit)
                    ELSE sorted
    IN  IF Has(options, "includeMetadata") /\ options.includeMetadata = FALSE
        THEN [i \in 1..Len(limited) |-> [limited[i] EXCEPT !.metadata = EmptyMetadata]]
        ELSE limited

\* a || b on numbers: 0 is falsy
OrElse(options, field, dflt) ==
    IF Has(options, field) /\ options[field] # 0 THEN options[field] ELSE dflt

createSearchCacheKey(query, options, minSimilarityThreshold) ==
    [kind            |-> "search",
     query           |-> Trim(ToLowerCase(query)),
     limit           |-> OrElse(options, "limit", DefaultLimit),
     minSimilarity   |-> OrElse(options, "minSimilarity", minSimilarityThreshold),
     includeMetadata |-> ~(Has(options, "includeMetadata")
                           /\ options.includeMetadata = FALSE),
     stamp           |-> FALSE]

\* KnowledgeManagementSystem.search: the options it passes to searchSimilar,
\* its defaults overridden by the caller's.
FacadeSearchOptions(options) ==
    Spread([limit |-> DefaultLimit, minSimilarity |-> DefaultMinSimilarityThreshold,
            includeMetadata |-> TRUE],
           options)

(***************************************************************************)
(* Map operations.                                                         *)
(***************************************************************************)
EmptyMap == [k \in {} |-> 0]

MapSet(m, k, v) == [x \in DOMAIN m \cup {k} |-> IF x = k THEN v ELSE m[x]]

MapDelete(m, k) == [x \in DOMAIN m \ {k} |-> m[x]]

\* The keys of documentCache: 'all_documents', and `${key}_timestamp` for
\* 'all_documents' and for every search cache key.
AllDocumentsKey ==
    [kind |-> "all_documents", query |-> Str("", 0, FALSE, 0), limit |-> 0,
     minSimilarity |-> 0, includeMetadata |-> TRUE, stamp |-> FALSE]

TimestampKey(cacheKey) == [cacheKey EXCEPT !.stamp = TRUE]

(***************************************************************************)
(* State.                                                                  *)
(***************************************************************************)
VARIABLES
    now,                     \* Date.now(), in clock units
    minSimilarityThreshold,  \* BaseSearchProvider.minSimilarityThreshold
    store,                   \* the document store: the documents in listing order
    documentCache,           \* VectorSearchProvider.documentCache
    searchCache,             \* VectorSearchProvider.searchCache
    search,                  \* the searchSimilar calls, one per caller
    mut,                     \* the facade's mutation call
    nextId,                  \* the next id generateDocumentId yields
    nCalls,                  \* searchSimilar and mutation calls made so far
    history,                 \* the store after each of its writes
    committed,               \* index in history of the last write whose call returned
    cleared,                 \* clearAllDocuments returned, no addDocument since
    snapshotOf,              \* per query cache key: the timestamp of the snapshot
                             \* its entry was computed from
    config,                  \* BaseEmbeddingProvider.config
    embeddingCache,          \* BaseEmbeddingProvider.cache
    gen,                     \* the generateEmbedding call of the embedding engine
    split,                   \* the splitIntoChunks call under way
    kmsConfig,               \* KnowledgeManagementSystem.config
    health,                  \* the facade's getHealthStatus call
    calc,                    \* the call of SimilarityCalculator under way
    updaters,                \* two updateDocument calls running side by side
    plugin                   \* a BasePlugin and its lifecycle calls

\* The variables of the search provider, the store and the facade.
kmsVars == <<now, minSimilarityThreshold, store, documentCache, searchCache, search,
             mut, nextId, nCalls, history, committed, cleared, snapshotOf>>

\* The variables of the embedding engine and of the text splitter.
engineVars == <<config, embeddingCache, gen, split>>

\* The configuration of the facade, its health check, the similarity
\* calculator, the overlapping updateDocument calls and the plugin.
facadeVars == <<kmsConfig, health, calc, updaters, plugin>>

vars == <<kmsVars, engineVars, facadeVars>>

Searchers == {"s1", "s2"}

NoKey == [AllDocumentsKey EXCEPT !.kind = "none"]

IdleSearch ==
    [pc |-> "idle", query |-> Str("", 0, FALSE, 0), options |-> EmptyMap,
     cacheKey |-> NoKey, queryEmbedding |-> <<>>, documents |-> <<>>,
     result |-> <<>>, outcome |-> "none", hit |-> FALSE,
     embedCalls |-> 0, storeCalls |-> 0, cacheUsed |-> FALSE, snapshotAge |-> 0,
     startVer |-> 0, sinceClear |-> FALSE,
     expectHas |-> FALSE, expect |-> <<>>, keyAge |-> -1,
     stamp |-> 0, sinceMutation |-> FALSE, alone |-> FALSE, expectAlone |-> FALSE]

NoDoc ==
    [id |-> 0, content |-> Str("", 0, FALSE, 0), metadata |-> EmptyMetadata,
     hasEmbedding |-> FALSE, embedding |-> <<>>]

IdleMut ==
    [pc |-> "idle", op |-> "none", id |-> 0, content |-> Str("", 0, FALSE, 0),
     hasContent |-> FALSE, metadata |-> EmptyMetadata, found |-> FALSE,
     document |-> NoDoc, ids |-> {}, outcome |-> "none", wrote |-> 0,
     embedCalls |-> 0, saveCalls |-> 0, deletedCount |-> 0,
     quiet |-> FALSE, dirty |-> FALSE,
     docId |-> 0, returned |-> 0, got |-> NoDoc, roundTrip |-> FALSE]

SearchIdle(p) == search[p].pc \in {"idle", "done"}

MutIdle == mut.pc \in {"idle", "done"}

\* No searchSimilar call and no mutation is in flight.
Quiet == MutIdle /\ \A p \in Searchers : SearchIdle(p)

(***************************************************************************)
(* VectorSearchProvider: the caches.                                       *)
(***************************************************************************)
\* isCacheValid with an inclusive bound: an entry exactly as old as the TTL
\* still counts as valid
isCacheValidInclusive(cacheKey) ==
    LET timestampKey == TimestampKey(cacheKey)
    IN  /\ timestampKey \in DOMAIN documentCache
        /\ documentCache[timestampKey] # 0
        /\ now - documentCache[timestampKey] <= cacheTTL

isCacheValid(cacheKey) ==
    LET timestampKey == TimestampKey(cacheKey)
    IN  /\ timestampKey \in DOMAIN documentCache
        /\ documentCache[timestampKey] # 0
        /\ now - documentCache[timestampKey] < cacheTTL

\* No other searchSimilar call is in flight.
OthersIdle(p) == \A q \in Searchers \ {p} : SearchIdle(q)

\* setCacheTimestamp stamping the snapshot's key whatever the key given
setSnapshotTimestamp(cache, cacheKey) ==
    MapSet(cache, TimestampKey(AllDocumentsKey), now)

\* documentCache after setCacheTimestamp(cacheKey)
setCacheTimestamp(cache, cacheKey) == MapSet(cache, TimestampKey(cacheKey), now)

\* invalidateDocumentCache dropping only the snapshot's timestamp
invalidateTimestampOnly ==
    MapDelete(documentCache, TimestampKey(AllDocumentsKey))

\* documentCache after invalidateDocumentCache()
invalidateDocumentCache ==
    MapDelete(MapDelete(documentCache, AllDocumentsKey), TimestampKey(AllDocumentsKey))

\* The age of the search cache entry of cacheKey, -1 when there is none.
AgeOf(cacheKey) ==
    IF cacheKey \in DOMAIN searchCache /\ TimestampKey(cacheKey) \in DOMAIN documentCache
    THEN now - documentCache[TimestampKey(cacheKey)] ELSE -1

(***************************************************************************)
(* VectorSearchProvider.searchSimilar, one action per stretch of code      *)
(* between two awaits.                                                     *)
(***************************************************************************)
\* searchSimilar(query, options) up to its first await, or to its return on a
\* validation error or a search cache hit.
SearchStart(p, query, options) ==
    /\ SearchIdle(p)
    /\ LET prev == search[p]
           cacheKey == createSearchCacheKey(query, options, minSimilarityThreshold)
           call == [IdleSearch EXCEPT
                      !.query = query, !.options = options,
                      !.startVer = committed, !.sinceClear = cleared,
                      !.expectHas = /\ prev.pc = "done" /\ prev.outcome = "ok"
                                    /\ prev.query = query /\ prev.options = options
                                    /\ ~prev.sinceMutation /\ MutIdle
                                    /\ now - prev.stamp < cacheTTL,
                      !.expect = prev.result,
                      !.alone = MutIdle /\ OthersIdle(p),
                      !.expectAlone = prev.alone /\ MutIdle /\ OthersIdle(p)]
           Start(record) == [q \in Searchers |->
                               IF q = p THEN record
                               ELSE [search[q] EXCEPT !.alone = FALSE]]
       IN  IF validateQueryThrows(query) \/ validateOptionsThrows(options)
           THEN /\ search' = Start(
                                [call EXCEPT !.pc = "done", !.sinceMutation = FALSE, !.outcome = "invalid"])
           ELSE IF cacheKey \in DOMAIN searchCache /\ isCacheValid(cacheKey)
           THEN /\ search' = Start(
                                [call EXCEPT !.pc = "done", !.sinceMutation = FALSE, !.outcome = "ok",
                                             !.cacheKey = cacheKey,
                                             !.cacheUsed = TRUE, !.hit = TRUE,
                                             !.keyAge = AgeOf(cacheKey),
                                             !.stamp = documentCache[TimestampKey(cacheKey)],
                                             !.snapshotAge = now - snapshotOf[cacheKey],
                                             !.result = searchCache[cacheKey]])
           ELSE /\ search' = Start(
                                [call EXCEPT !.pc = "embed", !.cacheKey = cacheKey,
                                             !.cacheUsed = TRUE,
                                             !.keyAge = AgeOf(cacheKey),
                                             !.embedCalls = @ + 1])
    /\ UNCHANGED <<engineVars, facadeVars, snapshotOf, now, minSimilarityThreshold, store, documentCache, searchCache,
                   mut, nextId, history, committed, cleared>>

\* generateEmbedding(query) has settled: on a failure the error propagates;
\* otherwise getDocumentsWithCache runs, to its return on a document cache hit
\* (and searchSimilar to its end), or to its await of getAllDocuments.
SearchEmbedded(p, ok) ==
    /\ search[p].pc = "embed"
    /\ LET call == [search[p] EXCEPT
                      !.queryEmbedding = generateEmbedding(search[p].query)]
       IN  IF ~ok
           THEN /\ search' = [search EXCEPT ![p] =
                                [@ EXCEPT !.pc = "done", !.sinceMutation = FALSE, !.outcome = "error"]]
                /\ UNCHANGED <<documentCache, searchCache, snapshotOf>>
           ELSE IF AllDocumentsKey \in DOMAIN documentCache
                   /\ isCacheValid(AllDocumentsKey)
           THEN LET documents == documentCache[AllDocumentsKey]
                    fetched == documentCache[TimestampKey(AllDocumentsKey)]
                    results == calculateSimilarities(call.queryEmbedding, documents,
                                                     minSimilarityThreshold)
                    finalResults == applySearchOptions(results, call.options)
                IN  /\ searchCache' = MapSet(searchCache, call.cacheKey, finalResults)
                    /\ documentCache' = setCacheTimestamp(documentCache, call.cacheKey)
                    /\ snapshotOf' = MapSet(snapshotOf, call.cacheKey, fetched)
                    /\ search' = [search EXCEPT ![p] =
                                    [call EXCEPT !.pc = "done", !.sinceMutation = FALSE, !.outcome = "ok",
                                                 !.queryEmbedding = <<>>,
                                                 !.stamp = now,
                                                 !.snapshotAge = now - fetched,
                                                 !.result = finalResults]]
           ELSE /\ search' = [search EXCEPT ![p] =
                                [call EXCEPT !.pc = "fetch", !.storeCalls = @ + 1]]
                /\ UNCHANGED <<documentCache, searchCache, snapshotOf>>
    /\ UNCHANGED <<engineVars, facadeVars, now, minSimilarityThreshold, store, mut, nextId, nCalls, history,
                   committed, cleared>>

\* The store serves getAllDocuments for the call of p, or fails it.
StoreGetAllDocuments(p, ok) ==
    /\ search[p].pc = "fetch"
    /\ IF ok
       THEN /\ search' = [search EXCEPT ![p] =
                            [@ EXCEPT !.pc = "fetched", !.documents = store]]
       ELSE /\ search' = [search EXCEPT ![p] =
                            [@ EXCEPT !.pc = "done", !.sinceMutation = FALSE, !.outcome = "error"]]
    /\ UNCHANGED <<engineVars, facadeVars, snapshotOf, now, minSimilarityThreshold, store, documentCache, searchCache,
                   mut, nextId, nCalls, history, committed, cleared>>

\* getDocumentsWithCache resumes with the store's answer: filter, cache the
\* snapshot and its timestamp; then searchSimilar runs to its end.
SearchResume(p) ==
    /\ search[p].pc = "fetched"
    /\ LET call == search[p]
           documentsWithEmbeddings ==
               SelectSeq(call.documents, LAMBDA doc : doc.hasEmbedding)
           cache == setCacheTimestamp(
                        MapSet(documentCache, AllDocumentsKey, documentsWithEmbeddings),
                        AllDocumentsKey)
           results == calculateSimilarities(call.queryEmbedding,
                                            documentsWithEmbeddings,
                                            minSimilarityThreshold)
           finalResults == applySearchOptions(results, call.options)
       IN  IF calculateSimilaritiesThrows(call.queryEmbedding, documentsWithEmbeddings)
           THEN /\ documentCache' = cache
                /\ search' = [search EXCEPT ![p] =
                                [call EXCEPT !.pc = "done", !.sinceMutation = FALSE,
                                             !.outcome = "error",
                                             !.documents = <<>>,
                                             !.queryEmbedding = <<>>]]
                /\ UNCHANGED <<searchCache, snapshotOf>>
           ELSE /\ searchCache' = MapSet(searchCache, call.cacheKey, finalResults)
                /\ documentCache' = setCacheTimestamp(cache, call.cacheKey)
                /\ snapshotOf' = MapSet(snapshotOf, call.cacheKey, now)
                /\ search' = [search EXCEPT ![p] =
                                [call EXCEPT !.pc = "done", !.sinceMutation = FALSE,
                                             !.outcome = "ok",
                                             !.documents = <<>>,
                                             !.queryEmbedding = <<>>,
                                             !.stamp = now,
                                             !.result = finalResults]]
    /\ UNCHANGED <<engineVars, facadeVars, now, minSimilarityThreshold, store, mut, nextId, nCalls, history,
                   committed, cleared>>

(***************************************************************************)
(* FirestoreStorageProvider: the store's operations, each atomic.          *)
(***************************************************************************)
IndexOf(docs, id) ==
    IF \E i \in 1..Len(docs) : docs[i].id = id
    THEN CHOOSE i \in 1..Len(docs) : docs[i].id = id
    ELSE 0

\* validateDocument throws
validateDocumentThrows(document) ==
    \/ document.id = 0
    \/ IsBlank(document.content)
    \/ ~("timestamp" \in DOMAIN document.metadata)
    \/ document.metadata.timestamp = 0

\* prepareDocument, then the createdAt and updatedAt of saveDocument: the
\* server's timestamp, whose value the model does not follow.
prepareDocument(document) ==
    [document EXCEPT !.metadata =
        Spread(document.metadata,
               [createdAt |-> ServerTimestamp, updatedAt |-> ServerTimestamp])]

\* collection.doc(id).set(document): replace the document of that id, or add it
saveDocument(docs, document) ==
    LET prepared == prepareDocument(document)
        i == IndexOf(docs, document.id)
    IN  IF i = 0 THEN Append(docs, prepared) ELSE [docs EXCEPT ![i] = prepared]

\* collection.doc(id).delete()
deleteDocument(docs, id) == SelectSeq(docs, LAMBDA doc : doc.id # id)

\* batch.commit() of the deletes of the documents listed in `ids`
clearDocuments(docs, ids) == SelectSeq(docs, LAMBDA doc : doc.id \notin ids)

(***************************************************************************)
(* KnowledgeManagementSystem: the mutations, one action per stretch of     *)
(* code between two awaits and one per store operation.                    *)
(***************************************************************************)
\* A step of a mutation call lies between the searchSimilar calls around it.
Touched == [p \in Searchers |->
              [search[p] EXCEPT !.sinceMutation = TRUE, !.expectHas = FALSE,
                                !.alone = FALSE, !.expectAlone = FALSE]]

\* What a mutation records when it returns: whether no searchSimilar call was
\* in flight, and whether a cache held a snapshot or a result list.
QuietSearch == \A p \in Searchers : SearchIdle(p)
Dirty == AllDocumentsKey \in DOMAIN documentCache \/ DOMAIN searchCache # {}

\* The call, failed at its await of generateEmbedding, embeds once more
\* before it gives up.
MutRetry(outcome) ==
    /\ mut' = IF mut.pc = "add_embed" /\ mut.embedCalls < 2
              THEN [mut EXCEPT !.embedCalls = @ + 1]
              ELSE [mut EXCEPT !.pc = "done", !.outcome = outcome]

\* The call ends with an error: nothing else changes.
MutThrow(outcome) ==
    /\ mut' = [mut EXCEPT !.pc = "done", !.outcome = outcome]

\* addDocument(content, metadata) up to its await of generateEmbedding
AddStart(content, metadata) ==
    /\ MutIdle
    /\ cleared' = FALSE
    /\ search' = [p \in Searchers |-> [Touched[p] EXCEPT !.sinceClear = FALSE]]
    /\ LET call == [IdleMut EXCEPT !.op = "addDocument", !.content = content,
                                   !.hasContent = TRUE, !.metadata = metadata]
       IN  IF IsBlank(content)
           THEN /\ mut' = [call EXCEPT !.pc = "done", !.outcome = "invalid"]
           ELSE /\ mut' = [call EXCEPT !.pc = "add_embed", !.embedCalls = @ + 1]
    /\ UNCHANGED <<engineVars, facadeVars, snapshotOf, now, minSimilarityThreshold, store, documentCache, searchCache,
                   nextId, history, committed>>

\* generateEmbedding(content) has settled: build the document, call saveDocument
AddEmbedded(ok) ==
    /\ mut.pc = "add_embed"
    /\ search' = Touched
    /\ IF ~ok
       THEN MutThrow("error") /\ UNCHANGED nextId
       ELSE /\ mut' = [mut EXCEPT
                         !.pc = "add_save", !.saveCalls = @ + 1, !.id = nextId,
                         !.document =
                            [id |-> nextId, content |-> mut.content,
                             metadata |-> Spread(mut.metadata,
                                 [timestamp |->
                                     IF "timestamp" \in DOMAIN mut.metadata
                                        /\ mut.metadata.timestamp # 0
                                     THEN mut.metadata.timestamp ELSE now]),
                             hasEmbedding |-> TRUE,
                             embedding |-> generateEmbedding(mut.content)]]
            /\ nextId' = nextId + 1
    /\ UNCHANGED <<engineVars, facadeVars, snapshotOf, now, minSimilarityThreshold, store, documentCache, searchCache,
                   nCalls, history, committed, cleared>>

\* The store serves the saveDocument of addDocument or updateDocument.
StoreSave(ok) ==
    /\ mut.pc \in {"add_save", "upd_save"}
    /\ search' = Touched
    /\ IF ok /\ ~validateDocumentThrows(mut.document)
       THEN /\ store' = saveDocument(store, mut.document)
            /\ history' = Append(history, store')
            /\ mut' = [mut EXCEPT !.pc = IF mut.pc = "add_save" THEN "add_saved"
                                         ELSE "upd_saved",
                                  !.docId = prepareDocument(mut.document).id,
                                  !.wrote = Len(history) + 1]
       ELSE MutThrow("error") /\ UNCHANGED <<store, history>>
    /\ UNCHANGED <<engineVars, facadeVars, snapshotOf, now, minSimilarityThreshold, documentCache, searchCache, nextId,
                   nCalls, committed, cleared>>

\* addDocument resumes after saveDocument: invalidateDocumentCache(), return
AddReturn ==
    /\ mut.pc = "add_saved"
    /\ search' = Touched
    /\ documentCache' = invalidateDocumentCache
    /\ searchCache' = EmptyMap
    /\ mut' = [mut EXCEPT !.pc = "done", !.outcome = "ok", !.returned = mut.docId,
                          !.quiet = QuietSearch, !.dirty = Dirty]
    /\ committed' = IF mut.wrote > committed THEN mut.wrote ELSE committed
    /\ UNCHANGED <<engineVars, facadeVars, snapshotOf, now, minSimilarityThreshold, store, nextId, nCalls, history, cleared>>

\* updateDocument(id, content, metadata) up to its await of getDocument;
\* hasContent tells whether content is given.
UpdateStart(id, hasContent, content, metadata) ==
    /\ MutIdle
    /\ search' = Touched
    /\ mut' = [IdleMut EXCEPT !.pc = "upd_get", !.op = "updateDocument", !.id = id,
                              !.hasContent = hasContent, !.content = content,
                              !.metadata = metadata]
    /\ UNCHANGED <<engineVars, facadeVars, snapshotOf, now, minSimilarityThreshold, store, documentCache, searchCache,
                   nextId, history, committed, cleared>>

\* The store serves the getDocument of updateDocument.
StoreGetDocument(ok) ==
    /\ mut.pc = "upd_get"
    /\ search' = Touched
    /\ IF ok
       THEN LET i == IndexOf(store, mut.id)
            IN  /\ mut' = [mut EXCEPT !.pc = "upd_got", !.found = i # 0,
                                      !.document = IF i # 0 THEN store[i] ELSE NoDoc]
       ELSE MutThrow("error")
    /\ UNCHANGED <<engineVars, facadeVars, snapshotOf, now, minSimilarityThreshold, store, documentCache, searchCache,
                   nextId, nCalls, history, committed, cleared>>

\* An update that takes a missing document for an empty one.
missingTakenAsEmpty(found) == FALSE

\* if (!existingDoc): getDocument answered null
existingDocMissing(found) == ~found

\* updateDocument resumes with the stored document: not found, or merge and
\* either await generateEmbedding (content changed) or call saveDocument.
UpdateResume ==
    /\ mut.pc = "upd_got"
    /\ search' = Touched
    /\ IF existingDocMissing(mut.found)
       THEN MutThrow("notfound")
       ELSE LET existingDoc == mut.document
                given == mut.hasContent /\ StrLength(mut.content) # 0
                updatedContent == IF given THEN mut.content ELSE existingDoc.content
                updatedMetadata ==
                    Spread(Spread(existingDoc.metadata, mut.metadata),
                           [updatedAt |-> now])
                updatedDoc == [existingDoc EXCEPT !.content = updatedContent,
                                                  !.metadata = updatedMetadata]
            IN  /\ mut' = IF given /\ mut.content # existingDoc.content
                          THEN [mut EXCEPT !.pc = "upd_embed", !.embedCalls = @ + 1,
                                           !.document = updatedDoc]
                          ELSE [mut EXCEPT !.pc = "upd_save", !.saveCalls = @ + 1,
                                           !.document = updatedDoc]
    /\ UNCHANGED <<engineVars, facadeVars, snapshotOf, now, minSimilarityThreshold, store, documentCache, searchCache,
                   nextId, nCalls, history, committed, cleared>>

\* generateEmbedding(updatedContent) has settled: call saveDocument
UpdateEmbedded(ok) ==
    /\ mut.pc = "upd_embed"
    /\ search' = Touched
    /\ IF ok
       THEN /\ mut' = [mut EXCEPT
                         !.pc = "upd_save", !.saveCalls = @ + 1,
                         !.document = [@ EXCEPT
                             !.hasEmbedding = TRUE,
                             !.embedding = generateEmbedding(mut.document.content)]]
       ELSE MutThrow("error")
    /\ UNCHANGED <<engineVars, facadeVars, snapshotOf, now, minSimilarityThreshold, store, documentCache, searchCache,
                   nextId, nCalls, history, committed, cleared>>

\* updateDocument resumes after saveDocument: invalidateDocumentCache(), return
UpdateReturn ==
    /\ mut.pc = "upd_saved"
    /\ search' = Touched
    /\ documentCache' = invalidateDocumentCache
    /\ searchCache' = EmptyMap
    /\ mut' = [mut EXCEPT !.pc = "done", !.outcome = "ok",
                          !.quiet = QuietSearch, !.dirty = Dirty]
    /\ committed' = IF mut.wrote > committed THEN mut.wrote ELSE committed
    /\ UNCHANGED <<engineVars, facadeVars, snapshotOf, now, minSimilarityThreshold, store, nextId, nCalls, history, cleared>>

\* deleteDocument(id) up to its await of the store's deleteDocument
DeleteStart(id) ==
    /\ MutIdle
    /\ search' = Touched
    /\ mut' = [IdleMut EXCEPT !.pc = "del_store", !.op = "deleteDocument", !.id = id]
    /\ UNCHANGED <<engineVars, facadeVars, snapshotOf, now, minSimilarityThreshold, store, documentCache, searchCache,
                   nextId, history, committed, cleared>>

\* The store serves the deleteDocument of deleteDocument.
StoreDelete(ok) ==
    /\ mut.pc = "del_store"
    /\ search' = Touched
    /\ IF ok
       THEN /\ store' = deleteDocument(store, mut.id)
            /\ history' = Append(history, store')
            /\ mut' = [mut EXCEPT !.pc = "del_deleted", !.wrote = Len(history) + 1]
       ELSE MutThrow("error") /\ UNCHANGED <<store, history>>
    /\ UNCHANGED <<engineVars, facadeVars, snapshotOf, now, minSimilarityThreshold, documentCache, searchCache, nextId,
                   nCalls, committed, cleared>>

\* deleteDocument resumes after the delete: invalidateDocumentCache(), return
DeleteReturn ==
    /\ mut.pc = "del_deleted"
    /\ search' = Touched
    /\ documentCache' = invalidateDocumentCache
    /\ searchCache' = EmptyMap
    /\ mut' = [mut EXCEPT !.pc = "done", !.outcome = "ok",
                          !.quiet = QuietSearch, !.dirty = Dirty]
    /\ committed' = IF mut.wrote > committed THEN mut.wrote ELSE committed
    /\ UNCHANGED <<engineVars, facadeVars, snapshotOf, now, minSimilarityThreshold, store, nextId, nCalls, history, cleared>>

\* clearAllDocuments() up to its await of the store's clearAllDocuments
ClearStart ==
    /\ MutIdle
    /\ search' = Touched
    /\ mut' = [IdleMut EXCEPT !.pc = "clr_list", !.op = "clearAllDocuments"]
    /\ UNCHANGED <<engineVars, facadeVars, snapshotOf, now, minSimilarityThreshold, store, documentCache, searchCache,
                   nextId, history, committed, cleared>>

\* The store's clearAllDocuments lists the collection ...
StoreClearList(ok) ==
    /\ mut.pc = "clr_list"
    /\ search' = Touched
    /\ IF ok
       THEN /\ mut' = [mut EXCEPT !.pc = "clr_commit",
                                  !.ids = {store[i].id : i \in 1..Len(store)},
                                  !.deletedCount = Len(store)]
       ELSE MutThrow("error")
    /\ UNCHANGED <<engineVars, facadeVars, snapshotOf, now, minSimilarityThreshold, store, documentCache, searchCache,
                   nextId, nCalls, history, committed, cleared>>

\* ... and commits the batch that deletes the documents listed.
StoreClearCommit(ok) ==
    /\ mut.pc = "clr_commit"
    /\ search' = Touched
    /\ IF ok
       THEN /\ store' = clearDocuments(store, mut.ids)
            /\ history' = Append(history, store')
            /\ mut' = [mut EXCEPT !.pc = "clr_cleared", !.wrote = Len(history) + 1]
       ELSE MutThrow("error") /\ UNCHANGED <<store, history>>
    /\ UNCHANGED <<engineVars, facadeVars, snapshotOf, now, minSimilarityThreshold, documentCache, searchCache, nextId,
                   nCalls, committed, cleared>>

\* clearAllDocuments resumes after the clear: clearCache(), return
ClearReturn ==
    /\ mut.pc = "clr_cleared"
    /\ search' = Touched
    /\ documentCache' = EmptyMap
    /\ searchCache' = EmptyMap
    /\ mut' = [mut EXCEPT !.pc = "done", !.outcome = "ok",
                          !.quiet = QuietSearch, !.dirty = Dirty]
    /\ committed' = IF mut.wrote > committed THEN mut.wrote ELSE committed
    /\ cleared' = TRUE
    /\ UNCHANGED <<engineVars, facadeVars, snapshotOf, now, minSimilarityThreshold, store, nextId, nCalls, history>>

\* getDocument(id) up to its await of the store's getDocument.  A call that
\* asks for the id the addDocument just before it returned keeps the
\* arguments of that addDocument.
GetStart(id) ==
    /\ MutIdle
    /\ LET roundTrip == mut.op = "addDocument" /\ mut.outcome = "ok" /\ mut.returned = id
       IN  mut' = [IdleMut EXCEPT !.pc = "get_store", !.op = "getDocument", !.id = id,
                                  !.roundTrip = roundTrip,
                                  !.content = IF roundTrip THEN mut.content ELSE @,
                                  !.metadata = IF roundTrip THEN mut.metadata ELSE @]
    /\ UNCHANGED <<engineVars, facadeVars, snapshotOf, now, minSimilarityThreshold, store, documentCache, searchCache,
                   search, nextId, history, committed, cleared>>

\* The store serves the getDocument of getDocument: the document, or null.
StoreGet(ok) ==
    /\ mut.pc = "get_store"
    /\ IF ok
       THEN LET i == IndexOf(store, mut.id)
            IN  mut' = [mut EXCEPT !.pc = "done", !.outcome = "ok", !.found = i # 0,
                                   !.got = IF i # 0 THEN store[i] ELSE NoDoc]
       ELSE MutThrow("error")
    /\ UNCHANGED <<engineVars, facadeVars, snapshotOf, now, minSimilarityThreshold, store, documentCache, searchCache,
                   search, nextId, nCalls, history, committed, cleared>>

(***************************************************************************)
(* KnowledgeManagementSystem.getHealthStatus.  Promise.all starts the      *)
(* storage probe, the embedding probe and the document listing together;   *)
(* they settle in any order.  A probe is what the provider does when it is *)
(* asked: "true" and "false" are the answers of its own connection test,   *)
(* "throws" a test that rejects, "absent" a provider without a connection  *)
(* test (the embedding probe then embeds 'test', which succeeds or         *)
(* rejects).                                                               *)
(***************************************************************************)
StorageProbes == {"true", "false", "throws", "absent"}
EmbeddingProbes == {"true", "false", "throws", "absentOk", "absentThrows"}

\* testStorageConnection: the provider's answer, true without a test,
\* false when the test rejects.
testStorageConnection(probe) == probe \in {"true", "absent"}

\* testEmbeddingConnection: the provider's answer, or whether embedding
\* 'test' succeeded; false when either rejects.
testEmbeddingConnection(probe) == probe \in {"true", "absentOk"}

\* The catch block of getHealthStatus, as a variant that lets the error go.
healthErrorUncaught == TRUE

\* The catch block of getHealthStatus returns; the error goes no further.
healthErrorEscapes == FALSE

\* The object the catch block returns.
FailedStatus == [storage |-> FALSE, embedding |-> FALSE, search |-> FALSE,
                 totalDocuments |-> 0]

NoStatus == [storage |-> FALSE, embedding |-> FALSE, search |-> FALSE,
             totalDocuments |-> -1]

\* storageProbe, embeddingProbe and listing are what each of the three
\* promises settled with ("pending" before); documents is the length of
\* the listing.
IdleHealth == [pc |-> "idle", storageProbe |-> "pending", embeddingProbe |-> "pending",
               listing |-> "pending", documents |-> 0, outcome |-> "none",
               status |-> NoStatus]

\* The configuration the constructor leaves without a caller's overrides:
\* searchCacheTTL 1800 s and documentCacheTTL 3600 s, in clock units.
DefaultKmsConfig == [searchCacheTTL |-> 3, documentCacheTTL |-> 6]

\* No call of SimilarityCalculator has been made.
IdleCalc == [pc |-> "idle", vecA |-> <<>>, vecB |-> <<>>, embeddings |-> <<>>,
             fn |-> "none", result |-> [kind |-> "none"]]

\* The callers of the overlapping updateDocument calls.
Updaters == {"u1", "u2"}

\* No updateDocument call of the caller is under way.
IdleUpdate ==
    [pc |-> "idle", id |-> 0, hasContent |-> FALSE, content |-> Str("", 0, FALSE, 0),
     metadata |-> EmptyMetadata, found |-> FALSE, document |-> NoDoc,
     outcome |-> "none"]

IdleUpdaters == [u \in Updaters |-> IdleUpdate]

\* new BasePlugin(config): isInitialized and isRunning are false, no
\* lifecycle call is under way, metrics.errors is 0.
NewPlugin(enabled) ==
    [isInitialized |-> FALSE, isRunning |-> FALSE, enabled |-> enabled,
     errors |-> 0, calls |-> 0,
     init |-> "idle", start |-> "idle", stop |-> "idle", destroy |-> "idle",
     startOutcome |-> "none", stopOutcome |-> "none", destroyOutcome |-> "none",
     initOutcome |-> "none"]

FacadeIdle ==
    /\ kmsConfig = DefaultKmsConfig
    /\ health = IdleHealth
    /\ calc = IdleCalc
    /\ updaters = IdleUpdaters
    /\ plugin = NewPlugin(TRUE)

\* getHealthStatus is called: the three promises are started.
HealthStart ==
    /\ health.pc \in {"idle", "done"}
    /\ health.pc = "done" =>
          /\ health.storageProbe # "pending"
          /\ health.embeddingProbe # "pending"
    /\ health' = [IdleHealth EXCEPT !.pc = "all"]
    /\ UNCHANGED <<kmsVars, engineVars, kmsConfig, calc, updaters, plugin>>

\* The storage probe settles; it goes on after a rejected listing has
\* ended the call.
StorageProbeSettled(probe) ==
    /\ health.pc \in {"all", "rejected", "done"}
    /\ health.storageProbe = "pending"
    /\ health' = [health EXCEPT !.storageProbe = probe]
    /\ UNCHANGED <<kmsVars, engineVars, kmsConfig, calc, updaters, plugin>>

\* The embedding probe settles.
EmbeddingProbeSettled(probe) ==
    /\ health.pc \in {"all", "rejected", "done"}
    /\ health.embeddingProbe = "pending"
    /\ health' = [health EXCEPT !.embeddingProbe = probe]
    /\ UNCHANGED <<kmsVars, engineVars, kmsConfig, calc, updaters, plugin>>

\* getAllDocuments settles: with the documents of the store, or with the
\* store's error, which rejects the Promise.all.
ListingSettled(ok) ==
    /\ health.pc = "all"
    /\ health.listing = "pending"
    /\ health' = IF ok
                 THEN [health EXCEPT !.listing = "ok", !.documents = Len(store)]
                 ELSE [health EXCEPT !.listing = "failed", !.pc = "rejected"]
    /\ UNCHANGED <<kmsVars, engineVars, kmsConfig, calc, updaters, plugin>>

\* All three promises are fulfilled: the status is built from them.
HealthResolve ==
    /\ health.pc = "all"
    /\ health.storageProbe # "pending"
    /\ health.embeddingProbe # "pending"
    /\ health.listing = "ok"
    /\ health' = [health EXCEPT
                     !.pc = "done", !.outcome = "returned",
                     !.status = [storage |-> testStorageConnection(health.storageProbe),
                                 embedding |-> testEmbeddingConnection(health.embeddingProbe),
                                 search |-> TRUE,
                                 totalDocuments |-> health.documents]]
    /\ UNCHANGED <<kmsVars, engineVars, kmsConfig, calc, updaters, plugin>>

\* The Promise.all is rejected: the catch block answers.
HealthCatch ==
    /\ health.pc = "rejected"
    /\ health' = IF healthErrorEscapes
                 THEN [health EXCEPT !.pc = "done", !.outcome = "threw"]
                 ELSE [health EXCEPT !.pc = "done", !.outcome = "returned",
                                     !.status = FailedStatus]
    /\ UNCHANGED <<kmsVars, engineVars, kmsConfig, calc, updaters, plugin>>

\* updateConfig(newConfig): the fields given replace those of the
\* configuration.
UpdateConfig(newConfig) ==
    /\ kmsConfig' = Spread(kmsConfig, newConfig)
    /\ UNCHANGED <<kmsVars, engineVars, health, calc, updaters, plugin>>

(***************************************************************************)
(* SimilarityCalculator: a call of one of its three measures on the two    *)
(* vectors at hand.                                                        *)
(***************************************************************************)
CosineSimilarity ==
    /\ calc' = [calc EXCEPT !.pc = "done", !.fn = "cosineSimilarity",
                            !.result = cosineSimilarity(calc.vecA, calc.vecB)]
    /\ UNCHANGED <<kmsVars, engineVars, kmsConfig, health, updaters, plugin>>

EuclideanDistance ==
    /\ calc' = [calc EXCEPT !.pc = "done", !.fn = "euclideanDistance",
                            !.result = euclideanDistance(calc.vecA, calc.vecB)]
    /\ UNCHANGED <<kmsVars, engineVars, kmsConfig, health, updaters, plugin>>

ManhattanDistance ==
    /\ calc' = [calc EXCEPT !.pc = "done", !.fn = "manhattanDistance",
                            !.result = manhattanDistance(calc.vecA, calc.vecB)]
    /\ UNCHANGED <<kmsVars, engineVars, kmsConfig, health, updaters, plugin>>

\* The clock advances by the 30 minutes of the TTL.
Tick ==
    /\ now + cacheTTL <= MaxTime * cacheTTL
    /\ now' = now + cacheTTL
    /\ UNCHANGED <<engineVars, facadeVars, snapshotOf, minSimilarityThreshold, store, documentCache, searchCache,
                   search, mut, nextId, history, committed, cleared>>

\* The clock advances by one unit.
TickUnit ==
    /\ now < MaxTime * cacheTTL
    /\ now' = now + 1
    /\ UNCHANGED <<engineVars, facadeVars, snapshotOf, minSimilarityThreshold, store,
                   documentCache, searchCache, search, mut, nextId, nCalls, history,
                   committed, cleared>>

(***************************************************************************)
(* TextSplitter.  A text whose characters matter is a sequence of          *)
(* one-character strings; positions are the 0-based indices of the source. *)
(***************************************************************************)
Whitespace == {" ", "\n"}

Min(a, b) == IF a <= b THEN a ELSE b

Max3(a, b, c) ==
    LET ab == IF a >= b THEN a ELSE b
    IN  IF ab >= c THEN ab ELSE c

\* String.prototype.trim
trim(text) ==
    LET kept == {i \in 1..Len(text) : text[i] \notin Whitespace}
    IN  IF kept = {} THEN <<>>
        ELSE SubSeq(text, CHOOSE i \in kept : \A j \in kept : i <= j,
                          CHOOSE i \in kept : \A j \in kept : i >= j)

\* A substring that starts one character late.
substringFromNext(text, from, to) == SubSeq(text, from + 2, to)

\* String.prototype.substring, for 0 <= from <= to <= length
substring(text, from, to) == SubSeq(text, from + 1, to)

\* A search backwards that starts one character before fromIndex.
lastIndexOfBefore(text, ch, fromIndex) ==
    LET hits == {j \in 0..Min(fromIndex - 1, Len(text) - 1) : text[j + 1] = ch}
    IN  IF hits = {} THEN -1 ELSE CHOOSE j \in hits : \A k \in hits : j >= k

\* String.prototype.lastIndexOf(ch, fromIndex): the search runs backwards
\* from fromIndex, that index included.
lastIndexOf(text, ch, fromIndex) ==
    LET hits == {j \in 0..Min(fromIndex, Len(text) - 1) : text[j + 1] = ch}
    IN  IF hits = {} THEN -1 ELSE CHOOSE j \in hits : \A k \in hits : j >= k

\* bestCutPoint > currentPos + maxChars * 0.8, in integers
AfterEightyPercent(bestCutPoint, currentPos, maxChars) ==
    5 * bestCutPoint > 5 * currentPos + 4 * maxChars

\* An end position that is the boundary itself, taken wherever it lies from
\* the cursor on.
SplitEndPosAtBoundary(text, maxChars, currentPos) ==
    LET endPos == Min(currentPos + maxChars, Len(text))
        lastPeriod == lastIndexOf(text, ".", endPos)
        lastNewline == lastIndexOf(text, "\n", endPos)
        lastSpace == lastIndexOf(text, " ", endPos)
        bestCutPoint == Max3(lastPeriod, lastNewline, lastSpace)
    IN  IF endPos < Len(text) /\ bestCutPoint >= currentPos
        THEN bestCutPoint
        ELSE endPos

\* The end position one iteration of the loop settles on.
SplitEndPos(text, maxChars, currentPos) ==
    LET endPos == Min(currentPos + maxChars, Len(text))
        lastPeriod == lastIndexOf(text, ".", endPos)
        lastNewline == lastIndexOf(text, "\n", endPos)
        lastSpace == lastIndexOf(text, " ", endPos)
        bestCutPoint == Max3(lastPeriod, lastNewline, lastSpace)
    IN  IF endPos < Len(text) /\ AfterEightyPercent(bestCutPoint, currentPos, maxChars)
        THEN bestCutPoint + 1
        ELSE endPos

\* One iteration: the chunks after it and the new cursor.
SplitIteration(text, maxChars, currentPos, chunks) ==
    LET endPos == SplitEndPos(text, maxChars, currentPos)
        chunk == trim(substring(text, currentPos, endPos))
    IN  [chunks |-> IF Len(chunk) > 0 THEN Append(chunks, chunk) ELSE chunks,
         currentPos |-> endPos]

RECURSIVE SplitLoop(_, _, _, _)
SplitLoop(text, maxChars, currentPos, chunks) ==
    IF currentPos < Len(text)
    THEN LET it == SplitIteration(text, maxChars, currentPos, chunks)
         IN  SplitLoop(text, maxChars, it.currentPos, it.chunks)
    ELSE chunks

splitIntoChunks(text, maxChars) == SplitLoop(text, maxChars, 0, <<>>)

IdleSplit == [pc |-> "idle", text |-> <<>>, maxChars |-> 1, currentPos |-> 0,
              chunks |-> <<>>, chunkIndex |-> 0]

\* The loop of splitIntoChunks, one iteration a step.
SplitStep ==
    /\ split.pc = "loop"
    /\ split.currentPos < Len(split.text)
    /\ LET it == SplitIteration(split.text, split.maxChars, split.currentPos, split.chunks)
       IN  split' = [split EXCEPT !.currentPos = it.currentPos, !.chunks = it.chunks]
    /\ UNCHANGED <<kmsVars, facadeVars, config, embeddingCache, gen>>

SplitReturn ==
    /\ split.pc = "loop"
    /\ split.currentPos >= Len(split.text)
    /\ split' = [split EXCEPT !.pc = "done"]
    /\ UNCHANGED <<kmsVars, facadeVars, config, embeddingCache, gen>>

(***************************************************************************)
(* TextSplitter.splitIntoDetailedChunks: the loop of splitIntoChunks       *)
(* written out a second time (its end position is computed by the same     *)
(* statements), pushing records and counting them in chunkIndex.           *)
(***************************************************************************)
\* An iteration that counts the segment it drops.
DetailedIterationCounting(text, maxChars, currentPos, chunks, chunkIndex) ==
    LET endPos == SplitEndPos(text, maxChars, currentPos)
        content == trim(substring(text, currentPos, endPos))
    IN  [chunks |-> IF Len(content) > 0
                    THEN Append(chunks, [content |-> content, index |-> chunkIndex,
                                         startPosition |-> currentPos,
                                         endPosition |-> endPos])
                    ELSE chunks,
         chunkIndex |-> chunkIndex + 1,
         currentPos |-> endPos]

\* One iteration: the chunks and the counter after it, and the new cursor.
DetailedIteration(text, maxChars, currentPos, chunks, chunkIndex) ==
    LET endPos == SplitEndPos(text, maxChars, currentPos)
        content == trim(substring(text, currentPos, endPos))
    IN  [chunks |-> IF Len(content) > 0
                    THEN Append(chunks, [content |-> content, index |-> chunkIndex,
                                         startPosition |-> currentPos,
                                         endPosition |-> endPos])
                    ELSE chunks,
         chunkIndex |-> IF Len(content) > 0 THEN chunkIndex + 1 ELSE chunkIndex,
         currentPos |-> endPos]

\* The loop of splitIntoDetailedChunks, one iteration a step.
DetailedStep ==
    /\ split.pc = "detailed_loop"
    /\ split.currentPos < Len(split.text)
    /\ LET it == DetailedIteration(split.text, split.maxChars, split.currentPos,
                                   split.chunks, split.chunkIndex)
       IN  split' = [split EXCEPT !.currentPos = it.currentPos, !.chunks = it.chunks,
                                  !.chunkIndex = it.chunkIndex]
    /\ UNCHANGED <<kmsVars, facadeVars, config, embeddingCache, gen>>

DetailedReturn ==
    /\ split.pc = "detailed_loop"
    /\ split.currentPos >= Len(split.text)
    /\ split' = [split EXCEPT !.pc = "detailed_done"]
    /\ UNCHANGED <<kmsVars, facadeVars, config, embeddingCache, gen>>

(***************************************************************************)
(* SimilarityCalculator.averageEmbeddings.  The element-wise mean is kept  *)
(* exact: the result is the vector num divided by den.                     *)
(***************************************************************************)
RECURSIVE SumAt(_, _)
SumAt(embeddings, k) ==
    IF embeddings = <<>> THEN 0
    ELSE Head(embeddings)[k] + SumAt(Tail(embeddings), k)

\* averageEmbeddings testing only for an element longer than the first.
averageEmbeddingsLongerOnly(embeddings) ==
    IF Len(embeddings) = 0 THEN [kind |-> "throw", error |-> "EmptyAverage"]
    ELSE IF Len(embeddings) = 1
    THEN [kind |-> "vec", num |-> embeddings[1], den |-> 1]
    ELSE LET dimension == Len(embeddings[1])
         IN  IF \E i \in 1..Len(embeddings) : Len(embeddings[i]) > dimension
             THEN [kind |-> "throw", error |-> "DimensionMismatch"]
             ELSE IF \E i \in 1..Len(embeddings) : Len(embeddings[i]) < dimension
             THEN [kind |-> "nan"]
             ELSE [kind |-> "vec",
                   num |-> [k \in 1..dimension |-> SumAt(embeddings, k)],
                   den |-> Len(embeddings)]

averageEmbeddings(embeddings) ==
    IF Len(embeddings) = 0 THEN [kind |-> "throw", error |-> "EmptyAverage"]
    ELSE IF Len(embeddings) = 1
    THEN [kind |-> "vec", num |-> embeddings[1], den |-> 1]
    ELSE LET dimension == Len(embeddings[1])
         IN  IF \E i \in 1..Len(embeddings) : Len(embeddings[i]) # dimension
             THEN [kind |-> "throw", error |-> "DimensionMismatch"]
             ELSE [kind |-> "vec",
                   num |-> [k \in 1..dimension |-> SumAt(embeddings, k)],
                   den |-> Len(embeddings)]

\* A call of averageEmbeddings on the list at hand.
AverageEmbeddings ==
    /\ calc' = [calc EXCEPT !.pc = "done", !.fn = "averageEmbeddings",
                            !.result = averageEmbeddings(calc.embeddings)]
    /\ UNCHANGED <<kmsVars, engineVars, kmsConfig, health, updaters, plugin>>

(***************************************************************************)
(* BaseEmbeddingProvider / GoogleEmbeddingProvider: generateEmbedding with *)
(* its cache, the single- and multi-chunk paths, retryWrapper and the      *)
(* 30 s race around the backend call.  One step per await.                 *)
(***************************************************************************)
maxRetries == 3
RetryDelayMs == 1000
ChunkDelayMs == 100
TimeoutMs == 30000

\* createTextHash: the md5 digest of the text, taken as collision-free.
createTextHash(text) == <<"md5", text>>

\* model.embedContent(text).embedding.values when the backend answers
embedContent(text) == <<Len(text), Cardinality({i \in 1..Len(text) : text[i] = "a"})>>

\* An earlier draft of the loop test of retryWrapper.
retryAgainInclusive(attempt) == attempt <= maxRetries

\* if (attempt < maxRetries): another attempt follows a failed one
retryAgain(attempt) == attempt < maxRetries

\* Doubling back-off.
backoffDouble(delayMs) == delayMs * 2

\* delayMs *= 1.5
backoff(delayMs) == (delayMs * 3) \div 2

\* A delay after every chunk.
delayAfterEveryChunk(i, chunks) == TRUE

\* if (i < chunks.length - 1): a delay follows every chunk but the last
\* (i is the 1-based index of the chunk)
delayAfterChunk(i, chunks) == i < Len(chunks)

\* A cache that is never consulted.
cacheNeverHas(c, textHash) == FALSE

\* this.cache.has(textHash)
cacheHas(c, textHash) == textHash \in DOMAIN c

\* A cache written under the hash of the chunk just embedded.
cacheSetChunk(c, text, sent, embedding) == MapSet(c, createTextHash(sent), embedding)

\* this.cache.set(textHash, embedding), textHash the hash of the whole text
cacheSet(c, text, sent, embedding) == MapSet(c, createTextHash(text), embedding)

\* manageCacheSize: compares the size with config.cacheSize and writes a
\* log line; the cache is not touched.
manageCacheSize(c, cacheSize) == c

\* A race without the timeout promise.
raceUnarmed(pc) == FALSE

\* Promise.race([embedPromise, timeoutPromise]): the timer is armed for as
\* long as the backend call is pending
raceArmed(pc) == pc = "backend"

NoError == [kind |-> "none", chunk |-> 0, attempt |-> 0]
NoVector == [kind |-> "none", num |-> <<>>, den |-> 1]

IdleGen == [pc |-> "idle", text |-> <<>>, multi |-> FALSE, chunks |-> <<>>, i |-> 0,
            embeddings |-> <<>>, attempt |-> 0, delayMs |-> 0, timerMs |-> 0,
            lastError |-> NoError, outcome |-> "none", result |-> NoVector,
            error |-> NoError, hit |-> FALSE, calls |-> 0]

DefaultConfig == [maxCharsPerChunk |-> 3, cacheSize |-> 1]

EngineIdle ==
    /\ config = DefaultConfig
    /\ embeddingCache = EmptyMap
    /\ gen = IdleGen
    /\ split = IdleSplit

\* The text handed to generateSingleEmbedding for the chunk under way.
Sending(call) == IF call.multi THEN call.chunks[call.i] ELSE call.text

\* generateSingleEmbedding(chunk i): retryWrapper starts its first attempt.
CallBackend(call, i) ==
    [call EXCEPT !.pc = "backend", !.i = i, !.attempt = 1, !.delayMs = RetryDelayMs,
                 !.timerMs = TimeoutMs, !.lastError = NoError, !.calls = @ + 1]

\* The call throws: every catch on the way rethrows the error it caught.
GenThrow(call, error) ==
    [call EXCEPT !.pc = "done", !.outcome = "error", !.error = error, !.timerMs = 0]

\* generateEmbedding(text) up to its first await
GenStart(text) ==
    /\ gen.pc \in {"idle", "done"}
    /\ LET textHash == createTextHash(text)
           call == [IdleGen EXCEPT !.text = text]
       IN  IF cacheHas(embeddingCache, textHash)
           THEN gen' = [call EXCEPT !.pc = "done", !.outcome = "ok", !.hit = TRUE,
                                    !.result = embeddingCache[textHash]]
           ELSE IF Len(text) <= config.maxCharsPerChunk
           THEN gen' = CallBackend([call EXCEPT !.chunks = <<text>>], 1)
           ELSE LET chunks == splitIntoChunks(text, config.maxCharsPerChunk)
                    multi == [call EXCEPT !.multi = TRUE, !.chunks = chunks]
                IN  IF chunks = <<>>
                    THEN gen' = GenThrow(multi, [kind |-> averageEmbeddings(<<>>).error,
                                                 chunk |-> 0, attempt |-> 0])
                    ELSE gen' = CallBackend(multi, 1)
    /\ UNCHANGED <<kmsVars, facadeVars, config, embeddingCache, split>>

\* The chunk loop after chunk i and its delay: the next chunk is sent, or
\* the loop is over and the call stores the embedding and returns it.
\* On the single-chunk path the embedding is the vector of the backend.
LoopOn(call) ==
    LET embedding == IF call.multi THEN averageEmbeddings(call.embeddings)
                     ELSE [kind |-> "vec", num |-> call.embeddings[1], den |-> 1]
    IN  IF call.multi /\ call.i < Len(call.chunks)
        THEN /\ gen' = CallBackend(call, call.i + 1)
             /\ UNCHANGED embeddingCache
        ELSE IF embedding.kind = "throw"
        THEN /\ gen' = GenThrow(call, [kind |-> embedding.error, chunk |-> 0, attempt |-> 0])
             /\ UNCHANGED embeddingCache
        ELSE /\ gen' = [call EXCEPT !.pc = "done", !.outcome = "ok", !.timerMs = 0,
                                    !.result = embedding]
             /\ embeddingCache' =
                    manageCacheSize(cacheSet(embeddingCache, call.text, Sending(call), embedding),
                                    config.cacheSize)

\* The backend answers with a vector: retryWrapper returns it and the chunk
\* loop goes on, through its delay when one is due.
BackendResolve ==
    /\ gen.pc = "backend"
    /\ LET answered == [gen EXCEPT !.embeddings = Append(@, embedContent(Sending(gen)))]
       IN  IF gen.multi /\ delayAfterChunk(gen.i, gen.chunks)
           THEN /\ gen' = [answered EXCEPT !.pc = "delay", !.timerMs = ChunkDelayMs]
                /\ UNCHANGED embeddingCache
           ELSE LoopOn(answered)
    /\ UNCHANGED <<kmsVars, facadeVars, config, split>>

\* An attempt failed with `error`: retryWrapper waits and tries again, or,
\* after the last attempt, throws the error of that attempt.
AttemptFailed(error) ==
    IF retryAgain(gen.attempt)
    THEN gen' = [gen EXCEPT !.pc = "wait", !.lastError = error, !.timerMs = gen.delayMs]
    ELSE gen' = GenThrow([gen EXCEPT !.lastError = error], error)

\* The backend rejects the call.
BackendReject ==
    /\ gen.pc = "backend"
    /\ AttemptFailed([kind |-> "backend", chunk |-> gen.i, attempt |-> gen.attempt])
    /\ UNCHANGED <<kmsVars, facadeVars, config, embeddingCache, split>>

\* The 30 s timer fires before the backend has answered.
Timeout ==
    /\ raceArmed(gen.pc)
    /\ AttemptFailed([kind |-> "timeout", chunk |-> gen.i, attempt |-> gen.attempt])
    /\ UNCHANGED <<kmsVars, facadeVars, config, embeddingCache, split>>

\* The wait after a failed attempt is over: the next attempt starts.
WaitDone ==
    /\ gen.pc = "wait"
    /\ gen' = [gen EXCEPT !.pc = "backend", !.delayMs = backoff(@), !.attempt = @ + 1,
                          !.timerMs = TimeoutMs, !.calls = @ + 1]
    /\ UNCHANGED <<kmsVars, facadeVars, config, embeddingCache, split>>

\* The delay after a chunk is over: the loop goes on.
DelayDone ==
    /\ gen.pc = "delay"
    /\ LoopOn(gen)
    /\ UNCHANGED <<kmsVars, facadeVars, config, split>>

(***************************************************************************)
(* The provider and the facade under concurrent callers: an empty store,   *)
(* the default floor, two searchers and one mutating caller.               *)
(***************************************************************************)
Cat == Str("cat", 3, FALSE, 0)
Dog == Str("dog", 3, FALSE, 0)
Blank == Str("", 0, FALSE, 1)

SpecQueries == {Cat}
SpecOptions == {EmptyMap}
SpecContents == {Cat}
SpecMetadata == {[timestamp |-> 1]}
\* The answers of the store and of the embedding backend: success or failure.
SpecAnswers == BOOLEAN
SpecIds == {1, 2}
SpecUpdates == {<<TRUE, Dog, [title |-> 1]>>}

Init ==
    /\ FacadeIdle
    /\ EngineIdle
    /\ now = 1
    /\ minSimilarityThreshold = DefaultMinSimilarityThreshold
    /\ store = <<>>
    /\ documentCache = EmptyMap
    /\ searchCache = EmptyMap
    /\ search = [p \in Searchers |-> IdleSearch]
    /\ mut = IdleMut
    /\ nextId = 1
    /\ nCalls = 0
    /\ history = <<store>>
    /\ snapshotOf = EmptyMap
    /\ committed = 1
    /\ cleared = FALSE

\* A call counts against the bound on the calls of a behaviour.
Budget == nCalls < MaxCalls /\ nCalls' = nCalls + 1

Next ==
    \/ \E p \in Searchers, q \in SpecQueries, o \in SpecOptions :
           Budget /\ SearchStart(p, q, o)
    \/ \E p \in Searchers, ok \in BOOLEAN : SearchEmbedded(p, ok)
    \/ \E p \in Searchers, ok \in SpecAnswers : StoreGetAllDocuments(p, ok)
    \/ \E p \in Searchers : SearchResume(p)
    \/ \E c \in SpecContents, m \in SpecMetadata : Budget /\ AddStart(c, m)
    \/ \E ok \in BOOLEAN : AddEmbedded(ok)
    \/ \E ok \in SpecAnswers : StoreSave(ok)
    \/ AddReturn
    \/ \E id \in SpecIds, u \in SpecUpdates :
           Budget /\ UpdateStart(id, u[1], u[2], u[3])
    \/ \E ok \in SpecAnswers : StoreGetDocument(ok)
    \/ UpdateResume
    \/ \E ok \in BOOLEAN : UpdateEmbedded(ok)
    \/ UpdateReturn
    \/ \E id \in SpecIds : Budget /\ DeleteStart(id)
    \/ \E ok \in SpecAnswers : StoreDelete(ok)
    \/ DeleteReturn
    \/ Budget /\ ClearStart
    \/ \E ok \in SpecAnswers : StoreClearList(ok)
    \/ \E ok \in SpecAnswers : StoreClearCommit(ok)
    \/ ClearReturn
    \/ Budget /\ Tick

Spec == Init /\ [][Next]_vars

(***************************************************************************)
(* Corpora: the documents the facade has stored for a list of contents.    *)
(***************************************************************************)
Lion == Str("lion", 4, FALSE, 0)
Ant == Str("ant", 3, FALSE, 0)

Corpus(contents) ==
    [i \in 1..Len(contents) |->
        prepareDocument([id |-> i, content |-> contents[i],
                         metadata |-> [timestamp |-> 1],
                         hasEmbedding |-> TRUE,
                         embedding |-> generateEmbedding(contents[i])])]

SeqsUpTo(S, n) == UNION {[1..k -> S] : k \in 0..n}

\* The provider, the store and the facade at rest over a store of `docs`.
KmsWith(docs, floor) ==
    /\ now = 1
    /\ minSimilarityThreshold = floor
    /\ store = docs
    /\ documentCache = EmptyMap
    /\ searchCache = EmptyMap
    /\ search = [p \in Searchers |-> IdleSearch]
    /\ mut = IdleMut
    /\ nextId = Len(docs) + 1
    /\ nCalls = 0
    /\ history = <<docs>>
    /\ snapshotOf = EmptyMap
    /\ committed = 1
    /\ cleared = FALSE

InitWith(docs, floor) ==
    /\ FacadeIdle
    /\ EngineIdle
    /\ KmsWith(docs, floor)

(***************************************************************************)
(* The caches under a running clock: a fixed corpus, two searchers, no     *)
(* mutation.                                                               *)
(***************************************************************************)
TTLOptions == {EmptyMap, [limit |-> 1]}

InitTTL == InitWith(Corpus(<<Dog, Cat>>), DefaultMinSimilarityThreshold)

NextTTL ==
    \/ \E p \in Searchers, o \in TTLOptions :
           SearchStart(p, Cat, o) /\ UNCHANGED nCalls
    \/ \E p \in Searchers : SearchEmbedded(p, TRUE)
    \/ \E p \in Searchers : StoreGetAllDocuments(p, TRUE)
    \/ \E p \in Searchers : SearchResume(p)
    \/ Tick /\ UNCHANGED nCalls

SpecTTL == InitTTL /\ [][NextTTL]_vars

(***************************************************************************)
(* The search pipeline on its inputs: one caller at a time, a corpus and a *)
(* floor chosen at construction, requests over the valid and the invalid   *)
(* queries and options.                                                    *)
(***************************************************************************)
CatLoud == Str("cat", 3, TRUE, 1)
Long == Str("cat", MaxQueryLength, FALSE, 0)
Empty == Str("", 0, FALSE, 0)
TooLong == Str("cat", MaxQueryLength + 1, FALSE, 0)
PaddedLong == Str("cat", MaxQueryLength, FALSE, 1)

QueryCorpora ==
    {Corpus(c) : c \in SeqsUpTo({Cat, Dog, Ant}, MaxDocs)}
        \cup {Corpus(<<Dog, Cat, Lion, Dog, Cat, Lion>>), Corpus(<<Ant, Dog, Cat>>)}

\* The engines: every corpus under the default floor, and one corpus with a
\* negatively correlated document under a floor of -1.
QueryEngines ==
    (QueryCorpora \X {DefaultMinSimilarityThreshold})
        \cup {<<Corpus(<<Ant, Dog, Cat>>), -100>>}

ValidOptions ==
    {EmptyMap, [limit |-> 5], [limit |-> 1], [minSimilarity |-> 0],
     [includeMetadata |-> FALSE], [limit |-> 100, minSimilarity |-> 100]}

InvalidOptions ==
    {[limit |-> 0], [limit |-> 101], [minSimilarity |-> -1], [minSimilarity |-> 101]}

FacadeOptions == {FacadeSearchOptions(EmptyMap), FacadeSearchOptions([limit |-> 1])}

QueryRequests ==
    ({Cat} \X (ValidOptions \cup InvalidOptions \cup FacadeOptions))
        \cup ({CatLoud, Long, Empty, Blank, TooLong, PaddedLong} \X {EmptyMap})

InitQuery ==
    \E e \in QueryEngines : InitWith(e[1], e[2])

NextQuery ==
    \/ \E r \in QueryRequests : SearchStart("s1", r[1], r[2]) /\ UNCHANGED nCalls
    \/ \E ok \in BOOLEAN : SearchEmbedded("s1", ok)
    \/ \E ok \in BOOLEAN : StoreGetAllDocuments("s1", ok)
    \/ SearchResume("s1")

SpecQuery == InitQuery /\ [][NextQuery]_vars

(***************************************************************************)
(* The facade seen by one caller of addDocument, updateDocument and        *)
(* getDocument, next to one searcher that fills the caches: contents that  *)
(* are blank or not, metadata with and without the fields the code sets    *)
(* itself, updates with and without content, known and unknown ids, and a  *)
(* store and a backend that answer or fail.                                *)
(***************************************************************************)
FacadeContents == {Cat, Dog, Blank}

FacadeMetadata ==
    {EmptyMap, [timestamp |-> 2], [timestamp |-> 2, title |-> 1],
     [timestamp |-> 2, createdAt |-> 5]}

FacadeUpdates ==
    {<<FALSE, Empty, [title |-> 2]>>, <<FALSE, Empty, [createdAt |-> 5]>>,
     <<TRUE, Cat, EmptyMap>>, <<TRUE, Dog, [title |-> 2]>>, <<TRUE, Empty, EmptyMap>>}

FacadeIds == {1, 2}

InitFacade ==
    \E docs \in {<<>>, Corpus(<<Cat>>)} : InitWith(docs, DefaultMinSimilarityThreshold)

\* A call counts against the bound on the facade calls of a behaviour.
FacadeBudget == nCalls < MaxFacadeCalls /\ nCalls' = nCalls + 1

NextFacade ==
    \/ FacadeBudget /\ SearchStart("s1", Cat, EmptyMap)
    \/ \E ok \in BOOLEAN : SearchEmbedded("s1", ok)
    \/ \E ok \in BOOLEAN : StoreGetAllDocuments("s1", ok)
    \/ SearchResume("s1")
    \/ \E c \in FacadeContents, m \in FacadeMetadata : FacadeBudget /\ AddStart(c, m)
    \/ \E ok \in BOOLEAN : AddEmbedded(ok)
    \/ \E ok \in BOOLEAN : StoreSave(ok)
    \/ AddReturn
    \/ \E id \in FacadeIds, u \in FacadeUpdates :
           FacadeBudget /\ UpdateStart(id, u[1], u[2], u[3])
    \/ \E ok \in BOOLEAN : StoreGetDocument(ok)
    \/ UpdateResume
    \/ \E ok \in BOOLEAN : UpdateEmbedded(ok)
    \/ UpdateReturn
    \/ \E id \in FacadeIds : FacadeBudget /\ GetStart(id)
    \/ \E ok \in BOOLEAN : StoreGet(ok)

SpecFacade == InitFacade /\ [][NextFacade]_vars

(***************************************************************************)
(* The health check: stores of up to MaxDocs + 1 documents, every answer   *)
(* of the two probes, a listing that succeeds or fails, call after call.   *)
(***************************************************************************)
HealthStores == {Corpus(contents) : contents \in SeqsUpTo({Cat}, MaxDocs + 1)}

InitHealth ==
    \E docs \in HealthStores : InitWith(docs, DefaultMinSimilarityThreshold)

NextHealth ==
    \/ HealthStart
    \/ \E probe \in StorageProbes : StorageProbeSettled(probe)
    \/ \E probe \in EmbeddingProbes : EmbeddingProbeSettled(probe)
    \/ \E ok \in BOOLEAN : ListingSettled(ok)
    \/ HealthResolve
    \/ HealthCatch

SpecHealth == InitHealth /\ [][NextHealth]_vars

(***************************************************************************)
(* The configured TTLs: a facade constructed with a searchCacheTTL and a   *)
(* documentCacheTTL of three or six clock units (1800 s or 3600 s), one    *)
(* caller repeating a request while the clock advances.                    *)
(***************************************************************************)
KmsConfigs == [searchCacheTTL : {3, 6}, documentCacheTTL : {3, 6}]

ConfigUpdates == {[searchCacheTTL |-> 6], [documentCacheTTL |-> 3],
                  [searchCacheTTL |-> 3, documentCacheTTL |-> 6]}

InitConfig ==
    /\ EngineIdle
    /\ KmsWith(Corpus(<<Dog, Cat>>), DefaultMinSimilarityThreshold)
    /\ kmsConfig \in KmsConfigs
    /\ health = IdleHealth
    /\ updaters = IdleUpdaters
    /\ plugin = NewPlugin(TRUE)
    /\ calc = IdleCalc

NextConfig ==
    \/ \E o \in TTLOptions : SearchStart("s1", Cat, o) /\ UNCHANGED nCalls
    \/ SearchEmbedded("s1", TRUE)
    \/ StoreGetAllDocuments("s1", TRUE)
    \/ SearchResume("s1")
    \/ Tick /\ UNCHANGED nCalls
    \/ \E newConfig \in ConfigUpdates : UpdateConfig(newConfig)

SpecConfig == InitConfig /\ [][NextConfig]_vars

(***************************************************************************)
(* The similarity measures on every pair of integer vectors of up to       *)
(* MaxDim components: equal and unequal lengths, zero vectors, the empty   *)
(* vector.                                                                 *)
(***************************************************************************)
Components == {-1, 0, 2}

CalcVectors == SeqsUpTo(Components, MaxDim)

InitCalc ==
    /\ EngineIdle
    /\ KmsWith(<<>>, DefaultMinSimilarityThreshold)
    /\ kmsConfig = DefaultKmsConfig
    /\ health = IdleHealth
    /\ updaters = IdleUpdaters
    /\ plugin = NewPlugin(TRUE)
    /\ \E a \in CalcVectors, b \in CalcVectors :
          calc = [IdleCalc EXCEPT !.vecA = a, !.vecB = b]

NextCalc ==
    \/ CosineSimilarity
    \/ EuclideanDistance
    \/ ManhattanDistance

SpecCalc == InitCalc /\ [][NextCalc]_vars

(***************************************************************************)
(* averageEmbeddings on every list of up to MaxEmbeddings vectors of up to *)
(* MaxDim components: the empty list, one vector, equal and unequal        *)
(* dimensions.                                                             *)
(***************************************************************************)
AverageVectors == SeqsUpTo({1, 2}, MaxDim)

InitAverage ==
    /\ EngineIdle
    /\ KmsWith(<<>>, DefaultMinSimilarityThreshold)
    /\ kmsConfig = DefaultKmsConfig
    /\ health = IdleHealth
    /\ updaters = IdleUpdaters
    /\ plugin = NewPlugin(TRUE)
    /\ \E embeddings \in SeqsUpTo(AverageVectors, MaxEmbeddings) :
          calc = [IdleCalc EXCEPT !.embeddings = embeddings]

NextAverage == AverageEmbeddings

SpecAverage == InitAverage /\ [][NextAverage]_vars

(***************************************************************************)
(* Staleness: one caller repeating two requests over a store that stays as *)
(* it is, the clock advancing unit by unit through two TTLs.               *)
(***************************************************************************)
InitStale == InitWith(Corpus(<<Dog, Cat>>), DefaultMinSimilarityThreshold)

NextStale ==
    \/ \E o \in TTLOptions : SearchStart("s1", Cat, o) /\ UNCHANGED nCalls
    \/ SearchEmbedded("s1", TRUE)
    \/ StoreGetAllDocuments("s1", TRUE)
    \/ SearchResume("s1")
    \/ TickUnit

SpecStale == InitStale /\ [][NextStale]_vars

(***************************************************************************)
(* Corrupt records: every store of up to MaxDocs + 2 documents, each sound *)
(* (an embedding of the backend's dimension) or corrupt: an embedding that *)
(* is too short, too long or empty, or no embedding at all.                *)
(***************************************************************************)
Sound(content) == [content |-> content, hasEmbedding |-> TRUE,
                   embedding |-> generateEmbedding(content)]

TooShort == [content |-> Cat, hasEmbedding |-> TRUE, embedding |-> <<1>>]
TooLongVector == [content |-> Cat, hasEmbedding |-> TRUE, embedding |-> <<1, 0, 0>>]
EmptyVector == [content |-> Cat, hasEmbedding |-> TRUE, embedding |-> <<>>]
NoEmbedding == [content |-> Cat, hasEmbedding |-> FALSE, embedding |-> <<>>]

CorruptShapes == {TooShort, TooLongVector, EmptyVector, NoEmbedding}
SoundShapes == {Sound(Cat), Sound(Dog), Sound(Lion)}

Stored(shapes) ==
    [i \in 1..Len(shapes) |->
        prepareDocument([id |-> i, content |-> shapes[i].content,
                         metadata |-> [timestamp |-> 1],
                         hasEmbedding |-> shapes[i].hasEmbedding,
                         embedding |-> shapes[i].embedding])]

CorruptStores == {Stored(shapes) : shapes \in SeqsUpTo(CorruptShapes \cup SoundShapes, MaxDocs + 2)}

CorruptRequests == {Cat} \X {EmptyMap, [limit |-> 1]}

InitCorrupt ==
    \E docs \in CorruptStores : InitWith(docs, DefaultMinSimilarityThreshold)

NextCorrupt ==
    \/ \E r \in CorruptRequests : SearchStart("s1", r[1], r[2]) /\ UNCHANGED nCalls
    \/ \E ok \in BOOLEAN : SearchEmbedded("s1", ok)
    \/ \E ok \in BOOLEAN : StoreGetAllDocuments("s1", ok)
    \/ SearchResume("s1")

SpecCorrupt == InitCorrupt /\ [][NextCorrupt]_vars

(***************************************************************************)
(* splitIntoChunks as a function of its arguments: every text of up to     *)
(* MaxTextLen characters over letters, periods and one kind of white       *)
(* space, every chunk size from 1 to MaxChunkChars.                        *)
(***************************************************************************)
TextsOver(alphabet, n) == UNION {[1..k -> alphabet] : k \in 0..n}

SplitTexts == TextsOver({"a", ".", " "}, MaxTextLen) \cup TextsOver({"a", ".", "\n"}, MaxTextLen)

InitSplit ==
    /\ FacadeIdle
    /\ KmsWith(<<>>, DefaultMinSimilarityThreshold)
    /\ config = DefaultConfig
    /\ embeddingCache = EmptyMap
    /\ gen = IdleGen
    /\ \E text \in SplitTexts, maxChars \in 1..MaxChunkChars :
          split = [IdleSplit EXCEPT !.pc = "loop", !.text = text, !.maxChars = maxChars]

NextSplit ==
    \/ SplitStep
    \/ SplitReturn

SpecSplit == InitSplit /\ [][NextSplit]_vars

(***************************************************************************)
(* The cut points: short texts of words, periods and spaces with every     *)
(* small window, and texts of words and spaces                             *)
(* of 11 to MaxLongText characters with windows of 11 characters or more,  *)
(* the smallest in which a boundary beyond 80% of the window can lie two   *)
(* characters before the window's end.                                     *)
(***************************************************************************)
LongTexts == UNION {[1..k -> {"a", " "}] : k \in 11..MaxLongText}

CutRequests ==
    (TextsOver({"a", ".", " "}, MaxTextLen) \X (1..MaxChunkChars))
        \cup (LongTexts \X (11..MaxLongText))

InitCut ==
    /\ FacadeIdle
    /\ KmsWith(<<>>, DefaultMinSimilarityThreshold)
    /\ config = DefaultConfig
    /\ embeddingCache = EmptyMap
    /\ gen = IdleGen
    /\ \E r \in CutRequests :
          split = [IdleSplit EXCEPT !.pc = "loop", !.text = r[1], !.maxChars = r[2]]

NextCut ==
    \/ SplitStep
    \/ SplitReturn

SpecCut == InitCut /\ [][NextCut]_vars

(***************************************************************************)
(* splitIntoDetailedChunks on the texts and the chunk sizes of SpecSplit.  *)
(***************************************************************************)
InitDetailed ==
    /\ FacadeIdle
    /\ KmsWith(<<>>, DefaultMinSimilarityThreshold)
    /\ config = DefaultConfig
    /\ embeddingCache = EmptyMap
    /\ gen = IdleGen
    /\ \E text \in SplitTexts, maxChars \in 1..MaxChunkChars :
          split = [IdleSplit EXCEPT !.pc = "detailed_loop", !.text = text,
                                    !.maxChars = maxChars]

NextDetailed ==
    \/ DetailedStep
    \/ DetailedReturn

SpecDetailed == InitDetailed /\ [][NextDetailed]_vars

(***************************************************************************)
(* Both splitters to their end: every text of words, periods and spaces of *)
(* up to MaxLiveText characters, every chunk size up to that, the loop     *)
(* running whenever it can.                                                *)
(***************************************************************************)
InitSplitLive ==
    /\ FacadeIdle
    /\ KmsWith(<<>>, DefaultMinSimilarityThreshold)
    /\ config = DefaultConfig
    /\ embeddingCache = EmptyMap
    /\ gen = IdleGen
    /\ \E text \in TextsOver({"a", ".", " "}, MaxLiveText), maxChars \in 1..MaxLiveText,
          pc \in {"loop", "detailed_loop"} :
          split = [IdleSplit EXCEPT !.pc = pc, !.text = text, !.maxChars = maxChars]

NextSplitLive ==
    \/ SplitStep
    \/ SplitReturn
    \/ DetailedStep
    \/ DetailedReturn

\* The loops are synchronous code: a loop that can take a step takes it.
FairLoops == WF_vars(NextSplitLive)

SpecSplitLive == InitSplitLive /\ [][NextSplitLive]_vars /\ FairLoops

(***************************************************************************)
(* The embedding engine: one caller, a backend that answers, rejects or    *)
(* stays silent, texts on the single-chunk path, on the multi-chunk path   *)
(* (two and three chunks, a cut after a period) and a blank text.          *)
(***************************************************************************)
EmbedTexts == {<<"a", "a">>, <<"a", ".">>,
               <<"a", "a", " ", "a", "a">>,
               <<"a", "a", "a", ".", "a">>,
               <<" ", " ", " ", " ", " ">>,
               <<"a", "a", "a", "a", "a", "a", "a">>}

EmbedConfigs == {[maxCharsPerChunk |-> 3, cacheSize |-> 1],
                 [maxCharsPerChunk |-> 4, cacheSize |-> 2]}

InitEmbed ==
    /\ FacadeIdle
    /\ KmsWith(<<>>, DefaultMinSimilarityThreshold)
    /\ config \in EmbedConfigs
    /\ embeddingCache = EmptyMap
    /\ gen = IdleGen
    /\ split = IdleSplit

NextEmbed ==
    \/ \E text \in EmbedTexts : GenStart(text)
    \/ BackendResolve
    \/ BackendReject
    \/ Timeout
    \/ WaitDone
    \/ DelayDone

SpecEmbed == InitEmbed /\ [][NextEmbed]_vars

\* The timers of the event loop fire: the 30 s timer of the race, the wait
\* of retryWrapper and the delay of the chunk loop.  Nothing is assumed of
\* the backend.
FairTimers == WF_vars(Timeout) /\ WF_vars(WaitDone) /\ WF_vars(DelayDone)

SpecEmbedLive == SpecEmbed /\ FairTimers

(***************************************************************************)
(* What searchSimilar computes from the documents `docs` of the store when *)
(* no cache takes part: the pipeline of its cache-miss path.               *)
(***************************************************************************)
SearchWithoutCache(docs, query, options) ==
    applySearchOptions(
        calculateSimilarities(generateEmbedding(query),
                              SelectSeq(docs, LAMBDA doc : doc.hasEmbedding),
                              minSimilarityThreshold),
        options)

Returned(p) == search[p].pc = "done" /\ search[p].outcome = "ok"

(***************************************************************************)
(* C1.  A searchSimilar call that starts after a mutation call has         *)
(* returned returns the results computed from a state of the store that    *)
(* includes that mutation's write, whatever other calls were in flight.    *)
(***************************************************************************)
C1_MutationVisibleAfterReturn ==
    \A p \in Searchers :
        Returned(p) =>
            \E i \in search[p].startVer..Len(history) :
                search[p].result =
                    SearchWithoutCache(history[i], search[p].query, search[p].options)

(***************************************************************************)
(* C2.  A searchSimilar call made after clearAllDocuments has returned and *)
(* before the next addDocument returns the empty list.                     *)
(***************************************************************************)
C2_EmptyAfterClear ==
    \A p \in Searchers :
        (Returned(p) /\ search[p].sinceClear) => search[p].result = <<>>

(***************************************************************************)
(* C3.  With no searchSimilar call in flight, the step in which a          *)
(* mutation returns successfully leaves no document snapshot and no query  *)
(* result in the caches.                                                   *)
(***************************************************************************)
C3_CachesEmptyAtReturn ==
    [][(mut.pc # "done" /\ mut'.pc = "done" /\ mut'.outcome = "ok" /\ QuietSearch)
          => (AllDocumentsKey \notin DOMAIN documentCache'
              /\ DOMAIN searchCache' = {})]_vars

\* A mutation has just returned, with no search in flight, and emptied caches
\* that held something.
C3_Witness ==
    /\ mut.pc = "done" /\ mut.outcome = "ok" /\ mut.quiet /\ mut.dirty
    /\ AllDocumentsKey \notin DOMAIN documentCache
    /\ DOMAIN searchCache = {}

(***************************************************************************)
(* C4.  A searchSimilar call that repeats the caller's previous call,      *)
(* within the TTL of the entry that call left and with no mutation step in *)
(* between, returns the same list and calls neither the embedding backend  *)
(* nor the store.                                                          *)
(***************************************************************************)
C4_RepeatServedFromCache ==
    \A p \in Searchers :
        (search[p].pc = "done" /\ search[p].expectHas) =>
            /\ search[p].outcome = "ok"
            /\ search[p].result = search[p].expect
            /\ search[p].embedCalls = 0
            /\ search[p].storeCalls = 0

(***************************************************************************)
(* C4, with the condition it needs.  The same holds when, in addition, no  *)
(* other call (searchSimilar or mutation) was in flight at any time from   *)
(* the start of the previous call to the return of the repeated one.       *)
(***************************************************************************)
C4_RepeatServedFromCacheAlone ==
    \A p \in Searchers :
        (search[p].pc # "idle" /\ search[p].expectHas /\ search[p].expectAlone) =>
            /\ search[p].pc = "done"
            /\ search[p].outcome = "ok"
            /\ search[p].hit
            /\ search[p].result = search[p].expect
            /\ search[p].embedCalls = 0
            /\ search[p].storeCalls = 0

\* A repeated call, alone with its predecessor, was served a list that is not
\* empty.
C4_Witness ==
    \E p \in Searchers :
        /\ search[p].pc = "done" /\ search[p].expectHas /\ search[p].expectAlone
        /\ search[p].hit /\ search[p].result # <<>>

(***************************************************************************)
(* C5.  A cache entry of age >= TTL is not served: the read goes on to     *)
(* recompute, and the recomputation stores the entry anew with the current *)
(* time; an entry of age < TTL is served as it is.  This holds of the      *)
(* query results and of the document snapshot.                             *)
(***************************************************************************)
Young(key) ==
    /\ TimestampKey(key) \in DOMAIN documentCache
    /\ now - documentCache[TimestampKey(key)] < cacheTTL

C5_LazyExpiry ==
    [][\A p \in Searchers :
        LET key == search'[p].cacheKey
            snapshotKept ==
                /\ documentCache'[AllDocumentsKey] = documentCache[AllDocumentsKey]
                /\ documentCache'[TimestampKey(AllDocumentsKey)]
                      = documentCache[TimestampKey(AllDocumentsKey)]
        IN  /\ (\E o \in TTLOptions : SearchStart(p, Cat, o))
                 => IF key \in DOMAIN searchCache /\ Young(key)
                    THEN /\ search'[p].pc = "done" /\ search'[p].hit
                         /\ search'[p].result = searchCache[key]
                         /\ UNCHANGED <<searchCache, documentCache>>
                    ELSE search'[p].pc = "embed"
            /\ (search[p].pc = "embed" /\ search'[p].pc # "embed")
                 => IF AllDocumentsKey \in DOMAIN documentCache /\ Young(AllDocumentsKey)
                    THEN /\ search'[p].pc = "done" /\ search'[p].storeCalls = 0
                         /\ snapshotKept
                         /\ search'[p].result =
                              SearchWithoutCache(documentCache[AllDocumentsKey],
                                                 search[p].query, search[p].options)
                    ELSE search'[p].pc = "fetch" /\ search'[p].storeCalls = 1
            /\ (search[p].pc = "fetched" /\ search'[p].pc = "done")
                 => /\ documentCache'[AllDocumentsKey] = search[p].documents
                    /\ documentCache'[TimestampKey(AllDocumentsKey)] = now
            /\ (search[p].pc \in {"embed", "fetched"} /\ search'[p].pc = "done")
                 => /\ searchCache'[key] = search'[p].result
                    /\ documentCache'[TimestampKey(key)] = now
      ]_vars

\* A call found a query entry as old as the TTL and is recomputing.
C5_Witness ==
    \E p \in Searchers : search[p].pc = "embed" /\ search[p].keyAge >= cacheTTL

(***************************************************************************)
(* C6.  The list served on a query cache hit is the list searchSimilar     *)
(* computes without a cache for the same request over the documents the    *)
(* entry was built from (the store, which no mutation changes here).       *)
(***************************************************************************)
C6_HitEqualsRecomputation ==
    \A p \in Searchers :
        (Returned(p) /\ search[p].hit) =>
            search[p].result =
                SearchWithoutCache(store, search[p].query, search[p].options)

(***************************************************************************)
(* C7.  searchSimilar returns at most options.limit results, and at most   *)
(* 5 when options.limit is absent.                                         *)
(***************************************************************************)
C7_AtMostLimit ==
    \A p \in Searchers :
        Returned(p) =>
            Len(search[p].result) <=
                (IF Has(search[p].options, "limit") THEN search[p].options.limit
                 ELSE DefaultLimit)

(***************************************************************************)
(* C8.  Every result returned has a similarity >= the engine's floor and   *)
(* >= options.minSimilarity when that is given.                            *)
(***************************************************************************)
C8_AboveThresholds ==
    \A p \in Searchers :
        Returned(p) =>
            \A n \in 1..Len(search[p].result) :
                /\ search[p].result[n].similarity >= minSimilarityThreshold
                /\ Has(search[p].options, "minSimilarity")
                     => search[p].result[n].similarity >= search[p].options.minSimilarity

(***************************************************************************)
(* C9.  With limit k, the list returned is the first k of the qualifying   *)
(* documents ordered by similarity descending, equal similarities in the   *)
(* order of the store.                                                     *)
(***************************************************************************)
SimilarityOf(query, doc) == cosineSimilarity(generateEmbedding(query), doc.embedding)

Qualifying(query, options) ==
    {i \in 1..Len(store) :
        /\ store[i].hasEmbedding
        /\ SimilarityOf(query, store[i]).kind = "num"
        /\ SimilarityOf(query, store[i]).v >= minSimilarityThreshold
        /\ Has(options, "minSimilarity")
             => SimilarityOf(query, store[i]).v >= options.minSimilarity}

RankOf(query, options, i) ==
    1 + Cardinality({j \in Qualifying(query, options) :
            \/ SimilarityOf(query, store[j]).v > SimilarityOf(query, store[i]).v
            \/ /\ SimilarityOf(query, store[j]).v = SimilarityOf(query, store[i]).v
               /\ j < i})

C9_FirstKRanked ==
    \A p \in Searchers :
        (Returned(p) /\ Has(search[p].options, "limit")) =>
            LET q == search[p].query
                o == search[p].options
                qualifying == Qualifying(q, o)
                n == IF o.limit < Cardinality(qualifying) THEN o.limit
                     ELSE Cardinality(qualifying)
            IN  /\ Len(search[p].result) = n
                /\ \A m \in 1..n :
                      \E i \in qualifying :
                          /\ RankOf(q, o, i) = m
                          /\ search[p].result[m].id = store[i].id
                          /\ search[p].result[m].similarity = SimilarityOf(q, store[i]).v

(***************************************************************************)
(* C10.  searchSimilar ends with a validation error exactly when the query *)
(* is blank or longer than 10,000 characters, the limit is given and       *)
(* outside 1..100, or minSimilarity is given and outside 0..1; such a call *)
(* touches no cache and calls neither the backend nor the store.           *)
(***************************************************************************)
InvalidRequest(query, options) ==
    \/ query.bodyLen = 0
    \/ query.bodyLen + query.pad > 10000
    \/ Has(options, "limit") /\ options.limit \notin 1..100
    \/ Has(options, "minSimilarity") /\ options.minSimilarity \notin 0..100

C10_ValidationFailsFast ==
    \A p \in Searchers :
        search[p].pc # "idle" =>
            /\ (search[p].outcome = "invalid")
                  <=> InvalidRequest(search[p].query, search[p].options)
            /\ search[p].outcome = "invalid"
                  => /\ search[p].pc = "done"
                     /\ ~search[p].cacheUsed
                     /\ search[p].embedCalls = 0
                     /\ search[p].storeCalls = 0

\* A call with a query of 10,001 characters has failed while the caches hold
\* entries.
C10_Witness ==
    /\ search["s1"].pc = "done" /\ search["s1"].outcome = "invalid"
    /\ StrLength(search["s1"].query) > MaxQueryLength
    /\ DOMAIN searchCache # {}

(***************************************************************************)
(* C11: the scoring of the documents never makes searchSimilar fail,       *)
(* whatever documents without an embedding or with an embedding of another *)
(* length than the query vector the store holds; the list returned holds   *)
(* none of these documents and is the ranking of the others: the documents *)
(* that reach the thresholds, by similarity descending, ties in store      *)
(* order, cut at the limit.                                                *)
(***************************************************************************)
Corrupt(doc, query) ==
    ~doc.hasEmbedding \/ Len(doc.embedding) # Len(generateEmbedding(query))

C11_CorruptDocumentsSkipped ==
    /\ [][SearchResume("s1") => search'["s1"].outcome = "ok"]_vars
    /\ [](Returned("s1") =>
            LET q == search["s1"].query
                o == search["s1"].options
                result == search["s1"].result
                qualifying == Qualifying(q, o)
                n == IF Has(o, "limit") /\ o.limit < Cardinality(qualifying)
                     THEN o.limit ELSE Cardinality(qualifying)
            IN  /\ \A m \in 1..Len(result) : \A i \in 1..Len(store) :
                      store[i].id = result[m].id => ~Corrupt(store[i], q)
                /\ \A i \in qualifying : ~Corrupt(store[i], q)
                /\ Len(result) = n
                /\ \A m \in 1..n :
                      \E i \in qualifying :
                          /\ RankOf(q, o, i) = m
                          /\ result[m].id = store[i].id
                          /\ result[m].similarity = SimilarityOf(q, store[i]).v)

\* A search has returned two results from a store of three documents whose
\* second one has an embedding of another length.
C11_Witness ==
    /\ Returned("s1") /\ ~search["s1"].hit
    /\ Len(store) = 3 /\ Len(search["s1"].result) = 2
    /\ store[2].hasEmbedding /\ Corrupt(store[2], search["s1"].query)
    /\ search["s1"].result[1].id = 3 /\ search["s1"].result[2].id = 1

(***************************************************************************)
(* Claims on the embedding engine (SpecEmbed) and on the splitter          *)
(* (SpecSplit).                                                            *)
(***************************************************************************)
\* The step starts an invocation of generateEmbedding.
Starts == \E text \in EmbedTexts : GenStart(text)

\* The step hands a text to the backend.
IssuesCall == gen'.calls = gen.calls + 1 \/ (Starts /\ gen'.calls = 1)

\* The invocation under way ends in this step by throwing.
Throws == gen.pc # "done" /\ gen'.pc = "done" /\ gen'.outcome = "error"

\* The invocation under way ends in this step by returning a vector.
Returns == gen'.pc = "done" /\ gen'.outcome = "ok" /\ (gen.pc # "done" \/ Starts)

(***************************************************************************)
(* C12: generateEmbedding(text) for a text whose hash is in the embedding  *)
(* cache returns the cached vector at once, makes no backend call and      *)
(* leaves the cache alone; a call that misses and returns has called the   *)
(* backend and has stored the vector it returns under the hash of the text *)
(* by the time it returns.                                                 *)
(***************************************************************************)
C12_HitAndMiss ==
    [][ /\ \A text \in EmbedTexts :
             GenStart(text) /\ createTextHash(text) \in DOMAIN embeddingCache
                => /\ gen'.pc = "done" /\ gen'.outcome = "ok"
                   /\ gen'.result = embeddingCache[createTextHash(text)]
                   /\ gen'.calls = 0
                   /\ embeddingCache' = embeddingCache
        /\ \A text \in EmbedTexts :
             GenStart(text) /\ createTextHash(text) \notin DOMAIN embeddingCache
                  /\ gen'.chunks # <<>>
                => gen'.pc = "backend" /\ gen'.calls = 1
        /\ Returns /\ ~gen'.hit
                => /\ gen'.calls >= 1
                   /\ createTextHash(gen'.text) \in DOMAIN embeddingCache'
                   /\ embeddingCache'[createTextHash(gen'.text)] = gen'.result
      ]_vars

\* A three-chunk text is served from the cache.
C12_Witness ==
    /\ gen.pc = "done" /\ gen.hit /\ gen.calls = 0
    /\ gen.result.den = 3

(***************************************************************************)
(* C13: a step changes the embedding cache only when the invocation        *)
(* returns, and then by adding one entry: the vector returned, under the   *)
(* hash of the whole text; on the multi-chunk path that vector is the mean *)
(* of the chunk vectors.  A step in which the invocation throws leaves the *)
(* cache as it was, and the cache never holds more than the hashes of the  *)
(* texts whose invocation returned.                                        *)
(***************************************************************************)
IsMeanOf(vector, embeddings) ==
    /\ Len(vector.num) = Len(embeddings[1])
    /\ \A k \in 1..Len(vector.num) :
          vector.num[k] * Len(embeddings) = vector.den * SumAt(embeddings, k)

C13_CacheOnlyOnSuccess ==
    [][ /\ embeddingCache' # embeddingCache
                => /\ Returns /\ ~gen'.hit
                   /\ createTextHash(gen'.text) \notin DOMAIN embeddingCache
                   /\ DOMAIN embeddingCache' =
                          DOMAIN embeddingCache \cup {createTextHash(gen'.text)}
                   /\ \A h \in DOMAIN embeddingCache : embeddingCache'[h] = embeddingCache[h]
                   /\ embeddingCache'[createTextHash(gen'.text)] = gen'.result
                   /\ gen'.multi =>
                         IsMeanOf(gen'.result,
                                  [i \in 1..Len(gen'.chunks) |-> embedContent(gen'.chunks[i])])
        /\ Throws
                => /\ embeddingCache' = embeddingCache
                   /\ gen'.chunks # <<>> => gen'.error = gen'.lastError
      ]_vars

\* The second chunk of a text has failed for good while the cache holds the
\* vector of another text.
C13_Witness ==
    /\ gen.pc = "done" /\ gen.outcome = "error"
    /\ gen.multi /\ gen.i = 2 /\ Len(gen.embeddings) = 1
    /\ DOMAIN embeddingCache # {}
    /\ createTextHash(gen.text) \notin DOMAIN embeddingCache
    /\ createTextHash(gen.chunks[1]) \notin DOMAIN embeddingCache

(***************************************************************************)
(* C14: on the multi-chunk path a text is handed to the backend only while *)
(* no backend call is pending, and it is the first chunk at the start, the *)
(* same chunk after the wait of a failed attempt, or chunk i+1 after chunk *)
(* i has succeeded and its 100 ms delay is over.  A delay starts only      *)
(* after a chunk that is not the last, and once a chunk has failed for     *)
(* good the invocation hands over nothing more.                            *)
(***************************************************************************)
C14_SequentialChunks ==
    [][ /\ IssuesCall /\ gen'.multi
                => /\ gen.pc # "backend"
                   /\ \/ Starts /\ gen'.i = 1
                      \/ gen.pc = "wait" /\ gen'.i = gen.i /\ gen'.attempt = gen.attempt + 1
                      \/ /\ gen.pc = "delay" /\ gen.timerMs = ChunkDelayMs
                         /\ gen'.i = gen.i + 1 /\ Len(gen.embeddings) = gen.i
                   /\ gen'.i \in 1..Len(gen'.chunks)
        /\ gen'.pc = "delay" /\ gen.pc # "delay"
                => /\ gen.pc = "backend" /\ gen.multi
                   /\ gen.i < Len(gen.chunks)
                   /\ Len(gen'.embeddings) = gen.i
                   /\ gen'.timerMs = ChunkDelayMs
        /\ gen.pc = "backend" /\ gen.multi /\ gen.i = Len(gen.chunks)
              /\ Len(gen'.embeddings) = Len(gen.embeddings) + 1
                => gen'.pc = "done"
        /\ gen.pc = "done" /\ gen' # gen => Starts
        /\ Throws => gen'.calls = gen.calls
      ]_vars

\* A three-chunk text has been embedded, one attempt having been retried.
C14_Witness ==
    /\ gen.pc = "done" /\ gen.outcome = "ok" /\ ~gen.hit
    /\ Len(gen.chunks) = 3 /\ gen.calls = 4

(***************************************************************************)
(* C15: retryWrapper makes at most 3 attempts for one backend call; an     *)
(* attempt that succeeds ends the call at once; the call throws only when  *)
(* its third attempt failed, and what it throws, and what generateEmbedding*)
(* throws in turn, is the error of that third attempt.                     *)
(***************************************************************************)
C15_ThreeAttempts ==
    [][ /\ gen'.attempt <= maxRetries
        /\ gen.pc = "backend" /\ Len(gen'.embeddings) = Len(gen.embeddings) + 1
                => /\ gen'.pc \in {"delay", "done"}
                   /\ gen'.calls = gen.calls
                   /\ gen'.embeddings[Len(gen'.embeddings)] = embedContent(Sending(gen))
        /\ gen.pc = "backend" /\ Throws
                => /\ gen.attempt = maxRetries
                   /\ gen'.error.attempt = maxRetries
                   /\ gen'.error.chunk = gen.i
                   /\ (Timeout => gen'.error.kind = "timeout")
                   /\ (BackendReject => gen'.error.kind = "backend")
        /\ gen.pc = "backend" /\ gen.attempt < maxRetries
              /\ Len(gen'.embeddings) = Len(gen.embeddings)
                => gen'.pc \in {"backend", "wait"}
      ]_vars

\* The third attempt for the second chunk timed out after two rejections.
C15_Witness ==
    /\ gen.pc = "done" /\ gen.outcome = "error"
    /\ gen.error = [kind |-> "timeout", chunk |-> 2, attempt |-> 3]
    /\ gen.calls = 4

(***************************************************************************)
(* C16: retryWrapper waits 1000 ms after a failed first attempt and        *)
(* 1500 ms after a failed second attempt; a wait starts only with the      *)
(* failure of an attempt that is not the last and ends with the next       *)
(* attempt; no wait follows the third failure or a success.                *)
(***************************************************************************)
C16_BackoffWaits ==
    [][ /\ gen'.pc = "wait" /\ gen.pc # "wait"
                => /\ gen.pc = "backend"
                   /\ Timeout \/ BackendReject
                   /\ gen.attempt \in {1, 2}
                   /\ gen.attempt = 1 => gen'.timerMs = 1000
                   /\ gen.attempt = 2 => gen'.timerMs = 1500
        /\ gen.pc = "wait" /\ gen' # gen
                => gen'.pc = "backend" /\ gen'.attempt = gen.attempt + 1 /\ gen'.i = gen.i
        /\ gen.pc = "backend" /\ gen.attempt = maxRetries => gen'.pc # "wait"
        /\ gen.pc = "backend" /\ gen.attempt < maxRetries /\ (Timeout \/ BackendReject)
                => gen'.pc = "wait"
      ]_vars

\* The wait before a third attempt.
C16_Witness == gen.pc = "wait" /\ gen.attempt = 2 /\ gen.timerMs = 1500

(***************************************************************************)
(* C17: when the 30 s timer of the race fires before the backend has       *)
(* answered, the attempt has failed like a rejected one: retryWrapper      *)
(* waits and tries again, or throws the timeout error after the third      *)
(* attempt.  With timers that fire, every invocation of generateEmbedding  *)
(* that has started ends, by returning or by throwing, whatever the        *)
(* backend does, a backend that never answers included.                    *)
(***************************************************************************)
C17_TimeoutRetriedAndTerminates ==
    /\ [][ Timeout
              => /\ gen.pc = "backend" /\ gen.timerMs = TimeoutMs
                 /\ gen'.lastError = [kind |-> "timeout", chunk |-> gen.i,
                                      attempt |-> gen.attempt]
                 /\ gen.attempt < maxRetries
                       => gen'.pc = "wait" /\ gen'.timerMs = gen.delayMs
                 /\ gen.attempt = maxRetries
                       => /\ gen'.pc = "done" /\ gen'.outcome = "error"
                          /\ gen'.error.kind = "timeout"
         ]_vars
    /\ [](gen.pc \in {"backend", "wait", "delay"} => <>(gen.pc = "done"))

\* A single-chunk call in which the backend never answered: three attempts,
\* each ended by the timer.
C17_Witness ==
    /\ gen.pc = "done" /\ gen.outcome = "error"
    /\ ~gen.multi /\ gen.calls = 3
    /\ gen.error = [kind |-> "timeout", chunk |-> 1, attempt |-> 3]

(***************************************************************************)
(* C18: whenever no invocation of generateEmbedding is under way, the      *)
(* embedding cache holds at most config.cacheSize entries.                 *)
(***************************************************************************)
C18_CacheSizeBounded ==
    gen.pc \in {"idle", "done"} => Cardinality(DOMAIN embeddingCache) <= config.cacheSize

(***************************************************************************)
(* C19: every chunk splitIntoChunks has produced is at most maxChars       *)
(* characters long.                                                        *)
(***************************************************************************)
C19_ChunkWithinMaxChars ==
    \A n \in 1..Len(split.chunks) : Len(split.chunks[n]) <= split.maxChars

(***************************************************************************)
(* C20: every text handed to generateSingleEmbedding, the whole text on    *)
(* the single-chunk path and each chunk on the multi-chunk path, is at     *)
(* most config.maxCharsPerChunk characters long.                           *)
(***************************************************************************)
C20_BackendTextWithinMax ==
    gen.pc \in {"backend", "wait"} => Len(Sending(gen)) <= config.maxCharsPerChunk

(***************************************************************************)
(* C21: when splitIntoChunks returns, its chunks, taken in order and with  *)
(* all white space removed, spell the text with all white space removed:   *)
(* no other character is lost, repeated or moved.  Every chunk is          *)
(* non-empty and has no white space at either end, and the empty text      *)
(* yields no chunk.  While the loop runs the same holds of the part of the *)
(* text before the cursor.                                                 *)
(***************************************************************************)
StripWhitespace(text) == SelectSeq(text, LAMBDA ch : ch \notin Whitespace)

RECURSIVE Concat(_)
Concat(chunks) == IF chunks = <<>> THEN <<>> ELSE Head(chunks) \o Concat(Tail(chunks))

C21_ChunksPreserveContent ==
    split.pc \in {"loop", "done"} =>
        /\ StripWhitespace(Concat(split.chunks))
              = StripWhitespace(SubSeq(split.text, 1, Min(split.currentPos, Len(split.text))))
        /\ split.pc = "done" =>
              StripWhitespace(Concat(split.chunks)) = StripWhitespace(split.text)
        /\ \A n \in 1..Len(split.chunks) :
              LET chunk == split.chunks[n]
              IN  /\ Len(chunk) > 0
                  /\ chunk[1] \notin Whitespace
                  /\ chunk[Len(chunk)] \notin Whitespace
        /\ split.pc = "done" /\ split.text = <<>> => split.chunks = <<>>

\* A text with white space inside and around it has been split into three
\* chunks.
C21_Witness ==
    /\ split.pc = "done" /\ Len(split.chunks) = 3
    /\ split.text[1] \in Whitespace
    /\ \E i \in 2..Len(split.text) : split.text[i] \in Whitespace
    /\ \E i \in 1..Len(split.text) : split.text[i] = "."

(***************************************************************************)
(* Claims on the facade seen by one caller (SpecFacade).                   *)
(***************************************************************************)
\* The step belongs to the facade call under way and leaves the store and
\* both cache levels as they are.
FacadeStepTouchesNothing ==
    store' = store /\ documentCache' = documentCache /\ searchCache' = searchCache

(***************************************************************************)
(* C22: addDocument embeds, then saves, then invalidates.  Blank content   *)
(* ends the call before any embedding or store call.  When the embedding   *)
(* fails the call ends with no save and with the store and the caches as   *)
(* they were.  The document handed to saveDocument holds the content given *)
(* and the embedding of that content.  A failed save leaves the caches     *)
(* alone.  After the save both cache levels are invalidated and the call   *)
(* returns the id the store returned, which is the id of the document      *)
(* saved.                                                                  *)
(***************************************************************************)
C22_AddEmbedSaveInvalidate ==
    [][ /\ \A c \in FacadeContents, m \in FacadeMetadata :
              AddStart(c, m) =>
                 /\ FacadeStepTouchesNothing
                 /\ mut'.saveCalls = 0
                 /\ c = Blank => mut'.pc = "done" /\ mut'.outcome = "invalid"
                                    /\ mut'.embedCalls = 0
                 /\ c # Blank => mut'.pc = "add_embed" /\ mut'.embedCalls = 1
        /\ mut.pc = "add_embed" /\ mut' # mut =>
              /\ FacadeStepTouchesNothing
              /\ \/ mut'.pc = "done" /\ mut'.outcome = "error" /\ mut'.saveCalls = 0
                 \/ /\ mut'.pc = "add_save" /\ mut'.saveCalls = 1
                    /\ mut'.document.content = mut.content
                    /\ mut'.document.hasEmbedding
                    /\ mut'.document.embedding = generateEmbedding(mut.content)
        /\ mut.pc = "add_save" /\ mut' # mut =>
              /\ documentCache' = documentCache /\ searchCache' = searchCache
              /\ \/ mut'.pc = "done" /\ mut'.outcome = "error" /\ store' = store
                 \/ /\ mut'.pc = "add_saved"
                    /\ Len(store') = Len(store) + 1
                    /\ store'[Len(store')].id = mut'.docId
                    /\ store'[Len(store')].content = mut.content
                    /\ store'[Len(store')].embedding = generateEmbedding(mut.content)
        /\ mut.pc = "add_saved" /\ mut' # mut =>
              /\ mut'.pc = "done" /\ mut'.outcome = "ok"
              /\ mut'.returned = mut.docId
              /\ store' = store
              /\ searchCache' = EmptyMap
              /\ AllDocumentsKey \notin DOMAIN documentCache'
        /\ mut'.op = "addDocument" /\ (documentCache' # documentCache \/ searchCache' # searchCache)
              /\ mut' # mut
              => mut.pc = "add_saved"
      ]_vars

\* The embedding of an addDocument failed while both cache levels were
\* filled: nothing was saved and the caches still hold their entries.
C22_Witness ==
    /\ mut.op = "addDocument" /\ mut.pc = "done" /\ mut.outcome = "error"
    /\ mut.embedCalls = 1 /\ mut.saveCalls = 0
    /\ AllDocumentsKey \in DOMAIN documentCache
    /\ DOMAIN searchCache # {}

(***************************************************************************)
(* C23: updateDocument awaits generateEmbedding exactly when content is    *)
(* given (a string that is not empty) and differs from the stored content. *)
(* The document an update saves has the old metadata overlaid with the     *)
(* fields supplied, and, when no embedding call was made, the old content  *)
(* and the old embedding.                                                  *)
(***************************************************************************)
C23_UpdateReembedsOnChange ==
    [][ /\ mut.pc = "upd_got" /\ mut.found /\ mut' # mut =>
              (mut'.pc = "upd_embed" /\ mut'.embedCalls = 1)
                 <=> (mut.hasContent /\ mut.content # Empty
                         /\ mut.content # mut.document.content)
        /\ mut.pc = "upd_save" /\ mut'.pc = "upd_saved" =>
              LET old == store[IndexOf(store, mut.id)]
                  new == store'[IndexOf(store', mut.id)]
              IN  /\ new.metadata = Spread(old.metadata, mut.metadata)
                  /\ mut.embedCalls = 0 =>
                        /\ new.content = old.content
                        /\ new.embedding = old.embedding
                        /\ new.hasEmbedding = old.hasEmbedding
      ]_vars

(***************************************************************************)
(* C24: the store tells updateDocument that it holds no document of the id *)
(* exactly when it holds none; updateDocument then ends with a not-found   *)
(* error, having made no embedding call and no saveDocument call, and with *)
(* the store and both cache levels as they were.                           *)
(***************************************************************************)
C24_UpdateUnknownId ==
    [][ /\ mut.pc = "upd_get" /\ mut'.pc = "upd_got" =>
              mut'.found = (\E i \in 1..Len(store) : store[i].id = mut.id)
        /\ mut.pc = "upd_got" /\ ~mut.found /\ mut' # mut =>
              /\ mut'.pc = "done" /\ mut'.outcome = "notfound"
              /\ mut'.embedCalls = 0 /\ mut'.saveCalls = 0
              /\ FacadeStepTouchesNothing
        /\ mut.op = "updateDocument" /\ mut.pc \in {"upd_get", "upd_got"} /\ mut' # mut =>
              FacadeStepTouchesNothing
      ]_vars

\* An update of an unknown id has failed next to a store that holds a
\* document and caches that hold entries.
C24_Witness ==
    /\ mut.op = "updateDocument" /\ mut.pc = "done" /\ mut.outcome = "notfound"
    /\ Len(store) = 1 /\ mut.id = 2
    /\ AllDocumentsKey \in DOMAIN documentCache
    /\ DOMAIN searchCache # {}

(***************************************************************************)
(* C27: getDocument of the id addDocument(c, m) has just returned yields a *)
(* document of that id whose content is c and whose metadata holds a       *)
(* timestamp and every field of m with the value supplied.                 *)
(***************************************************************************)
C27_AddGetRoundTrip ==
    (mut.op = "getDocument" /\ mut.pc = "done" /\ mut.outcome = "ok" /\ mut.roundTrip) =>
        /\ mut.found
        /\ mut.got.id = mut.id
        /\ mut.got.content = mut.content
        /\ "timestamp" \in DOMAIN mut.got.metadata
        /\ \A f \in DOMAIN mut.metadata :
              f \in DOMAIN mut.got.metadata /\ mut.got.metadata[f] = mut.metadata[f]

\* C25: getHealthStatus never throws: whatever the probes and the listing
\* did, the call ends by returning a status object of three flags and a
\* count, and the count is 0 when the listing failed.
C25_HealthNeverThrows ==
    health.pc = "done" =>
        /\ health.outcome = "returned"
        /\ health.status \in [storage : BOOLEAN, embedding : BOOLEAN, search : BOOLEAN,
                              totalDocuments : 0..(MaxDocs + 1)]
        /\ health.listing = "failed" => health.status.totalDocuments = 0
        /\ health.listing = "ok" => health.status.totalDocuments = Len(store)

\* C25 witness: the call has ended after the listing failed, the storage
\* probe rejected and the embedding of 'test' rejected.
C25_Witness ==
    /\ health.pc = "done"
    /\ health.listing = "failed"
    /\ health.storageProbe = "throws"
    /\ health.embeddingProbe = "absentThrows"
    /\ health.status.totalDocuments = 0

\* C26: each flag of the returned status reflects its own subsystem only:
\* embedding is what the embedding probe answered if it had answered when
\* the call returned, and storage is false exactly when the storage probe
\* or the listing failed.
C26_FlagsReflectOwnProbe ==
    [][health.pc # "done" /\ health'.pc = "done" =>
        /\ health.embeddingProbe # "pending" =>
              health'.status.embedding = testEmbeddingConnection(health.embeddingProbe)
        /\ health'.status.storage =
              (testStorageConnection(health.storageProbe) /\ health.listing = "ok")]_vars

\* C28: each cache level expires by its configured TTL: a request is served
\* from the query cache exactly when its entry is younger than the
\* configured searchCacheTTL, and the snapshot serves a computation exactly
\* when it is younger than the configured documentCacheTTL.
C28_ConfiguredTTLs ==
    [][LET call == search'["s1"]
           key == call.cacheKey
           stamped(k) == TimestampKey(k) \in DOMAIN documentCache
           age(k) == now - documentCache[TimestampKey(k)]
       IN  /\ (\E o \in TTLOptions : SearchStart("s1", Cat, o))
                => (call.hit <=> /\ key \in DOMAIN searchCache
                                 /\ stamped(key)
                                 /\ age(key) < kmsConfig.searchCacheTTL)
           /\ (search["s1"].pc = "embed" /\ call.pc # "embed")
                => (call.storeCalls = 0 <=> /\ AllDocumentsKey \in DOMAIN documentCache
                                            /\ stamped(AllDocumentsKey)
                                            /\ age(AllDocumentsKey)
                                                  < kmsConfig.documentCacheTTL)
      ]_vars

\* C29: cosineSimilarity of two vectors of equal length, one of them of
\* zero norm, is the number 0: it is not NaN and it does not throw.
C29_ZeroNormGivesZero ==
    (/\ calc.fn = "cosineSimilarity"
     /\ Len(calc.vecA) = Len(calc.vecB)
     /\ (Dot(calc.vecA, calc.vecA) = 0 \/ Dot(calc.vecB, calc.vecB) = 0))
        => calc.result = [kind |-> "num", v |-> 0]

\* C30: each of the three measures throws exactly when the two vectors
\* differ in length, and returns otherwise.
C30_ThrowsIffLengthsDiffer ==
    calc.pc = "done" =>
        /\ calc.fn \in {"cosineSimilarity", "euclideanDistance", "manhattanDistance"}
        /\ calc.result.kind \in {"num", "nan", "throw"}
        /\ calc.result.kind = "throw" <=> Len(calc.vecA) # Len(calc.vecB)

\* C30 witness: euclideanDistance has thrown on vectors of one and of two
\* components.
C30_Witness ==
    /\ calc.pc = "done"
    /\ calc.fn = "euclideanDistance"
    /\ Len(calc.vecA) = 1
    /\ Len(calc.vecB) = 2
    /\ calc.result.kind = "throw"

\* C31: averageEmbeddings throws the empty-input error on the empty list,
\* returns the one element of a one-element list as it is, throws the
\* dimension error when an element's length differs from the first's, and
\* otherwise returns the mean, component by component, in the first
\* element's length.
C31_AverageEmbeddings ==
    calc.fn = "averageEmbeddings" =>
        LET list == calc.embeddings
            n == Len(list)
            r == calc.result
        IN  /\ n = 0 => r = [kind |-> "throw", error |-> "EmptyAverage"]
            /\ n = 1 => r = [kind |-> "vec", num |-> list[1], den |-> 1]
            /\ (n > 1 /\ \E i \in 2..n : Len(list[i]) # Len(list[1]))
                  => r = [kind |-> "throw", error |-> "DimensionMismatch"]
            /\ (n > 1 /\ \A i \in 2..n : Len(list[i]) = Len(list[1]))
                  => /\ r.kind = "vec"
                     /\ r.den = n
                     /\ Len(r.num) = Len(list[1])
                     /\ \A k \in 1..Len(list[1]) : r.num[k] = SumAt(list, k)

\* C31 witness: the mean of three vectors of two components has been
\* returned.
C31_Witness ==
    /\ calc.fn = "averageEmbeddings"
    /\ calc.embeddings = <<(<<1, 2>>), (<<2, 2>>), (<<2, 1>>)>>
    /\ calc.result = [kind |-> "vec", num |-> <<5, 5>>, den |-> 3]

\* C32: no stage of the pipeline is run again: a searchSimilar call issues
\* generateEmbedding at most once and getAllDocuments at most once, an
\* addDocument call generateEmbedding at most once and saveDocument at most
\* once; a call leaves an await for the next stage or for its end, never
\* for an earlier stage, and a call ended by a failure has issued nothing
\* after the call that failed.
C32_NoPipelineRetry ==
    [][/\ \A p \in Searchers :
            LET call == search[p]
                next == search'[p]
            IN  /\ next.embedCalls <= 1 /\ next.storeCalls <= 1
                /\ call.pc = "embed" => next.pc \in {"embed", "fetch", "done"}
                /\ call.pc = "fetch" => next.pc \in {"fetch", "fetched", "done"}
                /\ (call.pc = "embed" /\ next.pc = "done" /\ next.outcome = "error")
                      => next.embedCalls = 1 /\ next.storeCalls = 0
                /\ (call.pc = "fetch" /\ next.pc = "done")
                      => /\ next.outcome = "error"
                         /\ next.embedCalls = 1 /\ next.storeCalls = 1
       /\ mut'.op = "addDocument" =>
            /\ mut'.embedCalls <= 1 /\ mut'.saveCalls <= 1
            /\ mut.pc = "add_embed" => mut'.pc \in {"add_embed", "add_save", "done"}
            /\ mut.pc = "add_save" => mut'.pc \in {"add_save", "add_saved", "done"}
            /\ (mut.pc = "add_embed" /\ mut'.pc = "done")
                  => /\ mut'.outcome = "error"
                     /\ mut'.embedCalls = 1 /\ mut'.saveCalls = 0
                     /\ store' = store
            /\ (mut.pc = "add_save" /\ mut'.pc = "done")
                  => /\ mut'.outcome = "error"
                     /\ mut'.embedCalls = 1 /\ mut'.saveCalls = 1
                     /\ store' = store
      ]_vars

\* C32 witness: an addDocument has ended in the error of its one
\* saveDocument, and a searchSimilar in the error of its one getAllDocuments.
C32_Witness ==
    /\ mut.op = "addDocument" /\ mut.pc = "done" /\ mut.outcome = "error"
    /\ mut.embedCalls = 1 /\ mut.saveCalls = 1
    /\ \E p \in Searchers :
          /\ search[p].pc = "done" /\ search[p].outcome = "error"
          /\ search[p].embedCalls = 1 /\ search[p].storeCalls = 1

\* C33: no searchSimilar call returns a result computed from a snapshot of
\* the documents that was fetched more than one TTL before the return,
\* whether the result is computed by the call or served from the query
\* cache.
C33_NoResultOlderThanTTL ==
    \A p \in Searchers :
        (search[p].pc = "done" /\ search[p].outcome = "ok")
            => search[p].snapshotAge <= cacheTTL

\* The boundary a cut may follow: the index of the last period, newline or
\* space at or before index currentPos + maxChars, -1 when there is none.
LastBoundary(text, currentPos, maxChars) ==
    LET found == {j \in 0..(Len(text) - 1) :
                     /\ j <= currentPos + maxChars
                     /\ text[j + 1] \in {".", "\n", " "}}
    IN  IF found = {} THEN -1 ELSE CHOOSE j \in found : \A k \in found : k <= j

\* The segment of an iteration starts at the cursor, where the one before
\* ended, and what is kept of it is its trim.
SegmentFromCursor ==
    LET segment == trim(SubSeq(split.text, split.currentPos + 1, split'.currentPos))
    IN  split'.chunks = IF segment = <<>> THEN split.chunks
                        ELSE Append(split.chunks, segment)

\* C34 as stated: in every iteration the cut follows the last boundary when
\* that boundary lies beyond 80% of the window, and is the hard cut at
\* currentPos + maxChars, or the end of the text, otherwise.
C34_CutAtBoundaryIffBeyondEighty ==
    [][(split.pc = "loop" /\ split'.pc = "loop" /\ split' # split) =>
         LET c == split.currentPos
             m == split.maxChars
             b == LastBoundary(split.text, c, m)
         IN  /\ split'.currentPos =
                   IF 5 * b > 5 * c + 4 * m THEN b + 1
                   ELSE Min(c + m, Len(split.text))
             /\ SegmentFromCursor
      ]_vars

\* C34, with the condition it needs: the same, where the window ends before
\* the end of the text; a remainder that fits the window is one segment, up
\* to the end of the text.
C34_CutAtBoundaryBeforeEnd ==
    [][(split.pc = "loop" /\ split'.pc = "loop" /\ split' # split) =>
         LET c == split.currentPos
             m == split.maxChars
             b == LastBoundary(split.text, c, m)
         IN  /\ split'.currentPos =
                   IF c + m < Len(split.text) /\ 5 * b > 5 * c + 4 * m THEN b + 1
                   ELSE Min(c + m, Len(split.text))
             /\ SegmentFromCursor
      ]_vars

\* C34 witness: in a text of twelve characters and a window of eleven the
\* first cut has been placed after the space at index 9, short of the window.
C34_Witness ==
    /\ split.pc = "loop"
    /\ split.maxChars = 11
    /\ Len(split.text) = 12
    /\ split.text[10] = " "
    /\ split.currentPos = 10
    /\ split.chunks = <<SubSeq(split.text, 1, 9)>>

\* C35: when splitIntoDetailedChunks returns, the contents of its records
\* are the chunks of splitIntoChunks in the same order; the indices count
\* 0, 1, 2, ... through the records, a dropped segment leaving no gap; each
\* content is the trim of the text from startPosition to endPosition; and
\* the ranges follow one another without overlap.
C35_DetailedMatchesChunks ==
    split.pc = "detailed_done" =>
        LET d == split.chunks
        IN  /\ [n \in 1..Len(d) |-> d[n].content]
                  = splitIntoChunks(split.text, split.maxChars)
            /\ \A n \in 1..Len(d) :
                  /\ d[n].index = n - 1
                  /\ 0 <= d[n].startPosition
                  /\ d[n].startPosition < d[n].endPosition
                  /\ d[n].endPosition <= Len(split.text)
                  /\ d[n].content
                        = trim(SubSeq(split.text, d[n].startPosition + 1, d[n].endPosition))
            /\ \A n \in 1..(Len(d) - 1) : d[n].endPosition <= d[n + 1].startPosition

\* C35 witness: a segment of white space only was dropped between two
\* records, which are numbered 0 and 1.
C35_Witness ==
    /\ split.pc = "detailed_done"
    /\ Len(split.chunks) = 2
    /\ split.chunks[2].index = 1
    /\ split.chunks[1].endPosition < split.chunks[2].startPosition

\* C36: splitIntoChunks and splitIntoDetailedChunks end for every text and
\* every maxChars >= 1: each iteration leaves the cursor strictly beyond
\* where it found it and not beyond the end of the text, and the call
\* returns.
C36_SplittersTerminate ==
    /\ [][(split.pc \in {"loop", "detailed_loop"} /\ split'.pc = split.pc)
             => /\ split.currentPos < split'.currentPos
                /\ split'.currentPos <= Len(split.text)]_split
    /\ <>(split.pc \in {"done", "detailed_done"})

\* C36 witness: splitIntoDetailedChunks has returned two records cut from a
\* text of four characters in windows of two.
C36_Witness ==
    /\ split.pc = "detailed_done"
    /\ split.maxChars = 2
    /\ Len(split.text) = 4
    /\ Len(split.chunks) = 2

\* C37: a timestamp is held only for a key that has a cached value: that of
\* the snapshot only while the snapshot is cached, that of a query key only
\* while the query cache holds the key's entry.
C37_TimestampOnlyWithValue ==
    \A k \in DOMAIN documentCache :
        k.stamp =>
            LET key == [k EXCEPT !.stamp = FALSE]
            IN  key \in DOMAIN documentCache \cup DOMAIN searchCache

(***************************************************************************)
(* Two updateDocument calls side by side.  The facade is not re-entrant    *)
(* guarded: a second call may start while the first awaits getDocument,    *)
(* generateEmbedding or saveDocument.  Each caller of Updaters makes one   *)
(* call; the steps are those of updateDocument, split at its awaits.       *)
(***************************************************************************)

\* storageProvider.saveDocument(updatedDoc): the whole document the call
\* built from what it read replaces the stored one.
saveUpdatedDoc(docs, call) == saveDocument(docs, call.document)

\* updateDocument(id, content, metadata) by caller u, up to its await of
\* getDocument
UpdaterStart(u, id, hasContent, content, metadata) ==
    /\ updaters[u].pc = "idle"
    /\ search' = Touched
    /\ updaters' = [updaters EXCEPT ![u] =
                      [IdleUpdate EXCEPT !.pc = "upd_get", !.id = id,
                                         !.hasContent = hasContent,
                                         !.content = content,
                                         !.metadata = metadata]]
    /\ UNCHANGED <<engineVars, kmsConfig, health, calc, plugin, snapshotOf, now,
                   minSimilarityThreshold, store, documentCache, searchCache,
                   mut, nextId, nCalls, history, committed, cleared>>

\* The store serves the getDocument of caller u.
UpdaterGetDocument(u, ok) ==
    /\ updaters[u].pc = "upd_get"
    /\ search' = Touched
    /\ LET i == IndexOf(store, updaters[u].id)
       IN  updaters' = [updaters EXCEPT ![u] =
                          IF ok
                          THEN [@ EXCEPT !.pc = "upd_got", !.found = i # 0,
                                         !.document = IF i # 0 THEN store[i] ELSE NoDoc]
                          ELSE [@ EXCEPT !.pc = "done", !.outcome = "error"]]
    /\ UNCHANGED <<engineVars, kmsConfig, health, calc, plugin, snapshotOf, now,
                   minSimilarityThreshold, store, documentCache, searchCache,
                   mut, nextId, nCalls, history, committed, cleared>>

\* The call of u resumes with the document it read: not found, or merge and
\* either await generateEmbedding (content changed) or call saveDocument.
UpdaterResume(u) ==
    /\ updaters[u].pc = "upd_got"
    /\ search' = Touched
    /\ LET call == updaters[u]
           existingDoc == call.document
           given == call.hasContent /\ StrLength(call.content) # 0
           updatedContent == IF given THEN call.content ELSE existingDoc.content
           updatedMetadata ==
               Spread(Spread(existingDoc.metadata, call.metadata),
                      [updatedAt |-> now])
           updatedDoc == [existingDoc EXCEPT !.content = updatedContent,
                                             !.metadata = updatedMetadata]
       IN  updaters' = [updaters EXCEPT ![u] =
                          IF existingDocMissing(call.found)
                          THEN [@ EXCEPT !.pc = "done", !.outcome = "notfound"]
                          ELSE IF given /\ call.content # existingDoc.content
                          THEN [@ EXCEPT !.pc = "upd_embed", !.document = updatedDoc]
                          ELSE [@ EXCEPT !.pc = "upd_save", !.document = updatedDoc]]
    /\ UNCHANGED <<engineVars, kmsConfig, health, calc, plugin, snapshotOf, now,
                   minSimilarityThreshold, store, documentCache, searchCache,
                   mut, nextId, nCalls, history, committed, cleared>>

\* generateEmbedding(updatedContent) of caller u has settled: call saveDocument
UpdaterEmbedded(u, ok) ==
    /\ updaters[u].pc = "upd_embed"
    /\ search' = Touched
    /\ updaters' = [updaters EXCEPT ![u] =
                      IF ok
                      THEN [@ EXCEPT !.pc = "upd_save",
                                     !.document = [@ EXCEPT
                                         !.hasEmbedding = TRUE,
                                         !.embedding =
                                             generateEmbedding(updaters[u].document.content)]]
                      ELSE [@ EXCEPT !.pc = "done", !.outcome = "error"]]
    /\ UNCHANGED <<engineVars, kmsConfig, health, calc, plugin, snapshotOf, now,
                   minSimilarityThreshold, store, documentCache, searchCache,
                   mut, nextId, nCalls, history, committed, cleared>>

\* The store serves the saveDocument of caller u.
UpdaterSave(u, ok) ==
    /\ updaters[u].pc = "upd_save"
    /\ search' = Touched
    /\ IF ok /\ ~validateDocumentThrows(updaters[u].document)
       THEN /\ store' = saveUpdatedDoc(store, updaters[u])
            /\ history' = Append(history, store')
            /\ updaters' = [updaters EXCEPT ![u] = [@ EXCEPT !.pc = "upd_saved"]]
       ELSE /\ updaters' = [updaters EXCEPT ![u] =
                              [@ EXCEPT !.pc = "done", !.outcome = "error"]]
            /\ UNCHANGED <<store, history>>
    /\ UNCHANGED <<engineVars, kmsConfig, health, calc, plugin, snapshotOf, now,
                   minSimilarityThreshold, documentCache, searchCache,
                   mut, nextId, nCalls, committed, cleared>>

\* The call of u resumes after saveDocument: invalidateDocumentCache(), return
UpdaterReturn(u) ==
    /\ updaters[u].pc = "upd_saved"
    /\ search' = Touched
    /\ documentCache' = invalidateDocumentCache
    /\ searchCache' = EmptyMap
    /\ updaters' = [updaters EXCEPT ![u] = [@ EXCEPT !.pc = "done", !.outcome = "ok"]]
    /\ committed' = Len(history)
    /\ UNCHANGED <<engineVars, kmsConfig, health, calc, plugin, snapshotOf, now,
                   minSimilarityThreshold, store, mut, nextId, nCalls, history,
                   cleared>>

\* What the callers pass: new content, new metadata fields, or both.
ContentUpdates == {<<TRUE, Dog, EmptyMetadata>>, <<TRUE, Lion, EmptyMetadata>>}
MetadataUpdates == {<<FALSE, Str("", 0, FALSE, 0), [title |-> 1]>>,
                    <<FALSE, Str("", 0, FALSE, 0), [title |-> 2, author |-> 1]>>}
UpdaterUpdates == ContentUpdates \cup MetadataUpdates \cup {<<TRUE, Dog, [title |-> 1]>>}

InitUpdaters ==
    /\ EngineIdle
    /\ FacadeIdle
    /\ KmsWith(Corpus(<<Cat>>), DefaultMinSimilarityThreshold)

NextUpdaters ==
    \/ \E u \in Updaters, id \in SpecIds, up \in UpdaterUpdates :
           UpdaterStart(u, id, up[1], up[2], up[3])
    \/ \E u \in Updaters, ok \in SpecAnswers : UpdaterGetDocument(u, ok)
    \/ \E u \in Updaters : UpdaterResume(u)
    \/ \E u \in Updaters, ok \in BOOLEAN : UpdaterEmbedded(u, ok)
    \/ \E u \in Updaters, ok \in SpecAnswers : UpdaterSave(u, ok)
    \/ \E u \in Updaters : UpdaterReturn(u)
    \/ Tick /\ UNCHANGED nCalls

SpecUpdaters == InitUpdaters /\ [][NextUpdaters]_vars

\* The two calls are on the same document, one passing content only and
\* the other metadata fields only, and both have returned.
ContentAndMetadataUpdated(c, m) ==
    /\ c # m
    /\ updaters[c].pc = "done" /\ updaters[c].outcome = "ok"
    /\ updaters[m].pc = "done" /\ updaters[m].outcome = "ok"
    /\ updaters[c].id = updaters[m].id
    /\ <<updaters[c].hasContent, updaters[c].content, updaters[c].metadata>>
           \in ContentUpdates
    /\ <<updaters[m].hasContent, updaters[m].content, updaters[m].metadata>>
           \in MetadataUpdates

\* C38: after an updateDocument call that changes the content and one that
\* changes metadata fields, on the same id, have both returned, the stored
\* document has the new content and the new metadata fields, however the two
\* calls interleaved.
C38_BothUpdatesStored ==
    \A c \in Updaters, m \in Updaters :
        ContentAndMetadataUpdated(c, m) =>
            LET stored == store[IndexOf(store, updaters[c].id)]
            IN  /\ stored.content = updaters[c].content
                /\ \A f \in DOMAIN updaters[m].metadata :
                       /\ f \in DOMAIN stored.metadata
                       /\ stored.metadata[f] = updaters[m].metadata[f]

(***************************************************************************)
(* Zero vectors: every store of up to MaxDocs + 2 documents whose          *)
(* embeddings are those of the backend or the zero vector, searched with a *)
(* query the backend embeds as usual and one it embeds as the zero vector, *)
(* with the default threshold and with the threshold 0.                    *)
(***************************************************************************)
Nil == Str("nil", 3, FALSE, 0)

ZeroVector == [content |-> Cat, hasEmbedding |-> TRUE, embedding |-> <<0, 0>>]

ZeroStores == {Stored(shapes) : shapes \in SeqsUpTo({ZeroVector, Sound(Cat), Sound(Dog)}, MaxDocs + 2)}

ZeroRequests == {Cat, Nil} \X {EmptyMap, [minSimilarity |-> 0]}

InitZero ==
    \E docs \in ZeroStores, floor \in {0, DefaultMinSimilarityThreshold} :
        InitWith(docs, floor)

NextZero ==
    \/ \E r \in ZeroRequests : SearchStart("s1", r[1], r[2]) /\ UNCHANGED nCalls
    \/ \E ok \in BOOLEAN : SearchEmbedded("s1", ok)
    \/ \E ok \in BOOLEAN : StoreGetAllDocuments("s1", ok)
    \/ SearchResume("s1")

SpecZero == InitZero /\ [][NextZero]_vars

\* Every component of the vector is 0.
ZeroNorm(vec) == \A i \in 1..Len(vec) : vec[i] = 0

\* C39: scoring never makes searchSimilar fail, and a list searchSimilar
\* returns holds no document whose similarity to the query is undefined: when
\* the query vector has zero norm the list is empty, and a document whose
\* embedding has zero norm is not in it.
C39_NoUndefinedSimilarity ==
    /\ [][SearchResume("s1") => search'["s1"].outcome = "ok"]_vars
    /\ [](Returned("s1") =>
            LET result == search["s1"].result
            IN  /\ ZeroNorm(generateEmbedding(search["s1"].query)) => result = <<>>
                /\ \A m \in 1..Len(result) : \A i \in 1..Len(store) :
                      store[i].id = result[m].id => ~ZeroNorm(store[i].embedding))

\* C39 witness: with the threshold 0, a search has returned the second of two
\* documents and not the first, whose embedding is the zero vector.
C39_Witness ==
    /\ Returned("s1") /\ ~search["s1"].hit
    /\ minSimilarityThreshold = 0
    /\ Len(store) = 2 /\ ZeroNorm(store[1].embedding) /\ ~ZeroNorm(store[2].embedding)
    /\ Len(search["s1"].result) = 1
    /\ search["s1"].result[1].id = 2

(***************************************************************************)
(* BasePlugin: initialize, start, stop and destroy, each split at its      *)
(* await of the hook (onInit, onStart, onStop, onDestroy).  A hook that is *)
(* not defined still yields at the await.  One call of each method may be  *)
(* under way; destroy carries its own call of stop.                        *)
(***************************************************************************)
PluginCall == plugin.calls < MaxPluginCalls

\* initialize(context) up to its await of onInit
PluginInitialize ==
    /\ PluginCall
    /\ plugin.init = "idle"
    /\ plugin' = IF plugin.isInitialized
                 THEN [plugin EXCEPT !.calls = @ + 1, !.initOutcome = "error"]
                 ELSE [plugin EXCEPT !.calls = @ + 1, !.init = "await_onInit",
                                     !.initOutcome = "none"]
    /\ UNCHANGED <<kmsVars, engineVars, kmsConfig, health, calc, updaters>>

\* onInit has settled
PluginInitialized(ok) ==
    /\ plugin.init = "await_onInit"
    /\ plugin' = IF ok
                 THEN [plugin EXCEPT !.init = "idle", !.initOutcome = "ok",
                                     !.isInitialized = TRUE]
                 ELSE [plugin EXCEPT !.init = "idle", !.initOutcome = "error",
                                     !.errors = @ + 1]
    /\ UNCHANGED <<kmsVars, engineVars, kmsConfig, health, calc, updaters>>

\* start() up to its await of onStart
PluginStart ==
    /\ PluginCall
    /\ plugin.start = "idle"
    /\ plugin' = IF ~plugin.isInitialized \/ plugin.isRunning \/ ~plugin.enabled
                 THEN [plugin EXCEPT !.calls = @ + 1, !.startOutcome = "error"]
                 ELSE [plugin EXCEPT !.calls = @ + 1, !.start = "await_onStart",
                                     !.startOutcome = "none"]
    /\ UNCHANGED <<kmsVars, engineVars, kmsConfig, health, calc, updaters>>

\* onStart has settled
PluginStarted(ok) ==
    /\ plugin.start = "await_onStart"
    /\ plugin' = IF ok
                 THEN [plugin EXCEPT !.start = "idle", !.startOutcome = "ok",
                                     !.isRunning = TRUE]
                 ELSE [plugin EXCEPT !.start = "idle", !.startOutcome = "error",
                                     !.errors = @ + 1]
    /\ UNCHANGED <<kmsVars, engineVars, kmsConfig, health, calc, updaters>>

\* stop() up to its await of onStop
PluginStop ==
    /\ PluginCall
    /\ plugin.stop = "idle"
    /\ plugin' = IF ~plugin.isRunning
                 THEN [plugin EXCEPT !.calls = @ + 1, !.stopOutcome = "noop"]
                 ELSE [plugin EXCEPT !.calls = @ + 1, !.stop = "await_onStop",
                                     !.stopOutcome = "none"]
    /\ UNCHANGED <<kmsVars, engineVars, kmsConfig, health, calc, updaters>>

\* onStop has settled
PluginStopped(ok) ==
    /\ plugin.stop = "await_onStop"
    /\ plugin' = IF ok
                 THEN [plugin EXCEPT !.stop = "idle", !.stopOutcome = "ok",
                                     !.isRunning = FALSE]
                 ELSE [plugin EXCEPT !.stop = "idle", !.stopOutcome = "error",
                                     !.errors = @ + 1]
    /\ UNCHANGED <<kmsVars, engineVars, kmsConfig, health, calc, updaters>>

\* destroy() up to its first await: of its call of stop() when the plugin
\* is running, which runs up to its await of onStop, else of onDestroy
PluginDestroy ==
    /\ PluginCall
    /\ plugin.destroy = "idle"
    /\ plugin' = [plugin EXCEPT !.calls = @ + 1, !.destroyOutcome = "none",
                                !.destroy = IF plugin.isRunning THEN "await_onStop"
                                            ELSE "await_onDestroy"]
    /\ UNCHANGED <<kmsVars, engineVars, kmsConfig, health, calc, updaters>>

\* onStop of the stop() that destroy() called has settled: stop() clears
\* isRunning and resolves, or counts an error and rejects
PluginDestroyStopped(ok) ==
    /\ plugin.destroy = "await_onStop"
    /\ plugin' = IF ok
                 THEN [plugin EXCEPT !.destroy = "await_stop", !.isRunning = FALSE]
                 ELSE [plugin EXCEPT !.destroy = "stop_rejected", !.errors = @ + 1]
    /\ UNCHANGED <<kmsVars, engineVars, kmsConfig, health, calc, updaters>>

\* destroy() resumes after its await of stop(): on to its await of
\* onDestroy, or into its catch
PluginDestroyResume ==
    /\ plugin.destroy \in {"await_stop", "stop_rejected"}
    /\ plugin' = IF plugin.destroy = "await_stop"
                 THEN [plugin EXCEPT !.destroy = "await_onDestroy"]
                 ELSE [plugin EXCEPT !.destroy = "idle", !.destroyOutcome = "error",
                                     !.errors = @ + 1]
    /\ UNCHANGED <<kmsVars, engineVars, kmsConfig, health, calc, updaters>>

\* onDestroy has settled
PluginDestroyed(ok) ==
    /\ plugin.destroy = "await_onDestroy"
    /\ plugin' = IF ok
                 THEN [plugin EXCEPT !.destroy = "idle", !.destroyOutcome = "ok",
                                     !.isInitialized = FALSE]
                 ELSE [plugin EXCEPT !.destroy = "idle", !.destroyOutcome = "error",
                                     !.errors = @ + 1]
    /\ UNCHANGED <<kmsVars, engineVars, kmsConfig, health, calc, updaters>>

\* updateConfig({enabled})
PluginUpdateConfig(enabled) ==
    /\ PluginCall
    /\ plugin' = [plugin EXCEPT !.calls = @ + 1, !.enabled = enabled]
    /\ UNCHANGED <<kmsVars, engineVars, kmsConfig, health, calc, updaters>>

InitPlugin ==
    /\ EngineIdle
    /\ KmsWith(<<>>, DefaultMinSimilarityThreshold)
    /\ kmsConfig = DefaultKmsConfig
    /\ health = IdleHealth
    /\ calc = IdleCalc
    /\ updaters = IdleUpdaters
    /\ \E enabled \in BOOLEAN : plugin = NewPlugin(enabled)

NextPlugin ==
    \/ PluginInitialize
    \/ \E ok \in BOOLEAN : PluginInitialized(ok)
    \/ PluginStart
    \/ \E ok \in BOOLEAN : PluginStarted(ok)
    \/ PluginStop
    \/ \E ok \in BOOLEAN : PluginStopped(ok)
    \/ PluginDestroy
    \/ \E ok \in BOOLEAN : PluginDestroyStopped(ok)
    \/ PluginDestroyResume
    \/ \E ok \in BOOLEAN : PluginDestroyed(ok)
    \/ \E enabled \in BOOLEAN : PluginUpdateConfig(enabled)

SpecPlugin == InitPlugin /\ [][NextPlugin]_vars

\* C40: a running plugin is initialized, in every reachable state, also when
\* start(), stop() and destroy() overlap at their awaits.
C40_RunningImpliesInitialized == plugin.isRunning => plugin.isInitialized

====
